---------------------------- MODULE Spec2Model ----------------------------
(***************************************************************************)
(* A model of tsloc, a tree-walking interpreter for Lox written in         *)
(* TypeScript: the driver (Lox), the Resolver, the runtime values          *)
(* (CallableFunction, LoxClass, LoxInstance) and the Interpreter.          *)
(*                                                                         *)
(* The Resolver is a static pass and is modelled as recursive operators    *)
(* over the syntax tree that thread the resolver's fields through a        *)
(* record.  The Interpreter is modelled as a small-step machine: `ctrl' is *)
(* what is being evaluated or the outcome travelling up the JavaScript     *)
(* call stack (a value, normal completion, or a thrown error) and `kont'   *)
(* is that call stack, one record per active visitor method.               *)
(***************************************************************************)
EXTENDS Integers, Sequences, FiniteSets, TLC

VARIABLES
    mode,             \* "file" (Lox.runFile) or "prompt" (Lox.runPrompt)
    pc,               \* "idle", "resolving", "running", "returned", "exited", "crashed"
    history,          \* the sources handed to Lox.run so far (indices of Sources)
    exitCode,         \* process exit code once pc = "exited"
    getAtStyle,       \* how Environment.getAt/assignAt treat an absent name
    hadError,         \* Lox.hadError
    hadRuntimeError,  \* Lox.hadRuntimeError
    stderr,           \* messages written with console.error
    output,           \* lines written with console.log by print
    locals,           \* Interpreter.locals: node id -> distance
    environment,      \* Interpreter.environment (index into envs)
    envs,             \* heap of Environment objects
    funs,             \* heap of CallableFunction objects
    classes,          \* heap of LoxClass objects
    insts,            \* heap of LoxInstance objects
    resolver,         \* the Resolver object
    work,             \* what the Resolver has still to do
    ctrl,             \* what the interpreter is doing
    kont              \* the active visitor calls, innermost last

vars == <<mode, pc, history, exitCode, getAtStyle, hadError, hadRuntimeError,
          stderr, output, locals, environment, envs, funs, classes, insts,
          resolver, work, ctrl, kont>>

driver == <<mode, pc, history, exitCode, getAtStyle, hadError, hadRuntimeError, stderr,
            resolver, work>>
heap == <<envs, funs, classes, insts>>

-----------------------------------------------------------------------------
(* JavaScript Map: insertion-ordered key/value pairs.                      *)

EmptyMap == <<>>

MapHas(m, key) == \E i \in 1..Len(m) : m[i].k = key

MapGet(m, key) == m[CHOOSE i \in 1..Len(m) : m[i].k = key].v

MapSet(m, key, val) ==
    IF MapHas(m, key)
    THEN [i \in 1..Len(m) |-> IF m[i].k = key THEN [k |-> key, v |-> val] ELSE m[i]]
    ELSE Append(m, [k |-> key, v |-> val])

-----------------------------------------------------------------------------
(* Runtime values.  Every value has the same three fields so that any two  *)
(* values can be compared: t is the variant, n the number / truth value /  *)
(* heap index, s the string.                                               *)

Nil == [t |-> "nil", n |-> 0, s |-> ""]
Undefined == [t |-> "undefined", n |-> 0, s |-> ""]
Bool(b) == [t |-> "bool", n |-> IF b THEN 1 ELSE 0, s |-> ""]
Num(i) == [t |-> "num", n |-> i, s |-> ""]
Str(x) == [t |-> "str", n |-> 0, s |-> x]
FunV(i) == [t |-> "fn", n |-> i, s |-> ""]
ClassV(i) == [t |-> "class", n |-> i, s |-> ""]
InstV(i) == [t |-> "inst", n |-> i, s |-> ""]
NativeClock == [t |-> "native", n |-> 0, s |-> "clock"]

-----------------------------------------------------------------------------
(* Syntax trees (Expr.ts, Stmt.ts).  Variable-bearing expressions carry an *)
(* id: the object identity that keys Interpreter.locals.                   *)

None == [k |-> "None"]

Literal(value) == [k |-> "Literal", value |-> value]
Variable(id, name) == [k |-> "Variable", id |-> id, name |-> name]
Assign(id, name, value) == [k |-> "Assign", id |-> id, name |-> name, value |-> value]
Binary(left, operator, right) ==
    [k |-> "Binary", left |-> left, operator |-> operator, right |-> right]
Call(callee, args) == [k |-> "Call", callee |-> callee, args |-> args]
Get(object, name) == [k |-> "Get", object |-> object, name |-> name]
Set(object, name, value) == [k |-> "Set", object |-> object, name |-> name, value |-> value]
This(id) == [k |-> "This", id |-> id]
Super(id, property) == [k |-> "Super", id |-> id, property |-> property]
SuperCall(id, args) == [k |-> "SuperCall", id |-> id, args |-> args]
FunctionExpr(params, body) == [k |-> "FunctionExpr", params |-> params, body |-> body]

BlockStmt(statements) == [k |-> "Block", statements |-> statements]
ExpressionStmt(expression) == [k |-> "Expression", expression |-> expression]
PrintStmt(expression) == [k |-> "Print", expression |-> expression]
VarStmt(name, initializer) == [k |-> "Var", name |-> name, initializer |-> initializer]
IfStmt(condition, thenBranch, elseBranch) ==
    [k |-> "If", condition |-> condition, thenBranch |-> thenBranch, elseBranch |-> elseBranch]
WhileStmt(condition, body, isFor, hasIncrement) ==
    [k |-> "While", condition |-> condition, body |-> body,
     isFor |-> isFor, hasIncrement |-> hasIncrement]
FunctionStmt(name, params, body) == [k |-> "Function", name |-> name, params |-> params, body |-> body]
ReturnStmt(value) == [k |-> "Return", value |-> value]
BreakStmt == [k |-> "Break"]
ContinueStmt == [k |-> "Continue"]
ClassStmt(name, superclass, methods, getters, staticMethods, staticGetters) ==
    [k |-> "Class", name |-> name, superclass |-> superclass, methods |-> methods,
     getters |-> getters, staticMethods |-> staticMethods, staticGetters |-> staticGetters]

(* Parser.forStatement: a for loop is desugared into while.                *)
forStatement(initializer, condition, increment, body) ==
    LET body1 == IF increment # None THEN BlockStmt(<<body, ExpressionStmt(increment)>>) ELSE body
        cond == IF condition = None THEN Literal(Bool(TRUE)) ELSE condition
        loop == WhileStmt(cond, body1, TRUE, increment # None)
    IN  IF initializer # None THEN BlockStmt(<<initializer, loop>>) ELSE loop

-----------------------------------------------------------------------------
(* Resolver.ts.  The variable `resolver' holds the fields of the Resolver  *)
(* object and `work' the rest of its traversal: the nodes still to be      *)
(* visited and the ends of the visitor methods that are waiting for a      *)
(* nested resolve to return, next first.  The operators below work on r,   *)
(* the Resolver together with what it writes outside itself: r.errors are  *)
(* the messages passed to Lox.error and r.locals is Interpreter.locals,    *)
(* written by interpreter.resolve(expr, depth).                            *)

NewResolver ==
    [scopes |-> <<>>, currentFunction |-> "NONE", currentClass |-> "NONE",
     currentLoop |-> "NONE", currentSuperCall |-> FALSE]

Resolver == resolver @@ [errors |-> <<>>, locals |-> locals]

error(r, message) == [r EXCEPT !.errors = Append(@, message)]

beginScope(r) == [r EXCEPT !.scopes = Append(@, EmptyMap)]

RECURSIVE checkUnusedVariables(_, _, _)
checkUnusedVariables(r, scope, i) ==
    IF i > Len(scope) THEN r
    ELSE checkUnusedVariables(
             IF scope[i].v # "USED"
             THEN error(r, "Unused local variable " \o scope[i].k \o ".")
             ELSE r,
             scope, i + 1)

(* endScope that checks the innermost scope and leaves it on the stack.    *)
endScopeKept(r) == checkUnusedVariables(r, r.scopes[Len(r.scopes)], 1)

(* endScope without the check of the popped scope.                         *)
endScopeUnchecked(r) == [r EXCEPT !.scopes = SubSeq(@, 1, Len(@) - 1)]

endScope(r) ==
    LET old == r.scopes[Len(r.scopes)]
    IN  checkUnusedVariables([r EXCEPT !.scopes = SubSeq(@, 1, Len(@) - 1)], old, 1)

SetTop(r, name, state) ==
    [r EXCEPT !.scopes[Len(r.scopes)] = MapSet(@, name, state)]

declare(r, name) ==
    IF Len(r.scopes) = 0 THEN r
    ELSE SetTop(IF MapHas(r.scopes[Len(r.scopes)], name)
                THEN error(r, "Already a variable with that name in this scope.")
                ELSE r,
                name, "DECLARED")

define(r, name) ==
    IF Len(r.scopes) = 0 THEN r ELSE SetTop(r, name, "DEFINED")

(* resolveLocal searching the scope stack from the outermost scope.        *)
resolveLocalOutermost(r, id, name, i) ==
    IF \E j \in 1..i : MapHas(r.scopes[j], name)
    THEN LET hit == CHOOSE j \in 1..i :
                        /\ MapHas(r.scopes[j], name)
                        /\ \A h \in 1..(j - 1) : ~MapHas(r.scopes[h], name)
         IN  [r EXCEPT !.scopes[hit] = MapSet(@, name, "USED"),
                       !.locals = MapSet(@, id, Len(r.scopes) - hit)]
    ELSE r

RECURSIVE resolveLocalFrom(_, _, _, _)
resolveLocalFrom(r, id, name, i) ==
    IF i < 1 THEN r
    ELSE IF MapHas(r.scopes[i], name)
         THEN [r EXCEPT !.scopes[i] = MapSet(@, name, "USED"),
                        !.locals = MapSet(@, id, Len(r.scopes) - i)]
         ELSE resolveLocalFrom(r, id, name, i - 1)

resolveLocal(r, id, name) == resolveLocalFrom(r, id, name, Len(r.scopes))

RECURSIVE declareParams(_, _)
declareParams(r, params) ==
    IF params = <<>> THEN r
    ELSE declareParams(define(declare(r, Head(params)), Head(params)), Tail(params))

(* Items of `work'.                                                        *)
Visit(s) == [t |-> "resolve", s |-> s]
VisitAll(list) == [i \in 1..Len(list) |-> Visit(list[i])]
After(what) == [t |-> what]

Resolving(kind) ==
    pc = "resolving" /\ work # <<>> /\ Head(work).t = "resolve" /\ Head(work).s.k = kind
Resuming(what) == pc = "resolving" /\ work # <<>> /\ Head(work).t = what

(* One step of the Resolver: it is left as r, with todo to do before the   *)
(* rest of the traversal.                                                  *)
Resolved(r, todo) ==
    /\ resolver' = [f \in DOMAIN resolver |-> r[f]]
    /\ locals' = r.locals
    /\ stderr' = stderr \o r.errors
    /\ hadError' = (hadError \/ r.errors # <<>>)
    /\ work' = todo \o Tail(work)
    /\ UNCHANGED <<mode, pc, history, exitCode, getAtStyle, hadRuntimeError, output,
                   environment, heap, ctrl, kont>>

(* resolveFunction that leaves currentFunction as it is instead of         *)
(* setting it to the type of the function resolved.                        *)
resolveFunctionBeginUntyped(r, func, type) ==
    declareParams(beginScope([r EXCEPT !.currentLoop = "NONE"]), func.params)

(* resolveFunction that keeps the enclosing currentLoop inside the body.   *)
resolveFunctionBeginInLoop(r, func, type) ==
    declareParams(beginScope([r EXCEPT !.currentFunction = type]), func.params)

(* resolveFunction up to the resolution of the body, and what it leaves    *)
(* to do.                                                                  *)
resolveFunctionBegin(r, func, type) ==
    declareParams(beginScope([r EXCEPT !.currentFunction = type, !.currentLoop = "NONE"]),
                  func.params)

resolveFunctionTodo(r, func, type) ==
    VisitAll(func.body)
        \o <<[t |-> "resolveFunction", type |-> type,
              enclosingFunction |-> r.currentFunction, enclosingLoop |-> r.currentLoop]>>

(* resolveFunction after the resolution of the body.                       *)
resolveFunction ==
    /\ Resuming("resolveFunction")
    /\ LET r1 == endScope(Resolver)
           r2 == IF /\ Head(work).type = "INITIALIZER"
                    /\ r1.currentClass = "DERIVED"
                    /\ ~r1.currentSuperCall
                 THEN error(r1, "Superclass was not initialized inside subclass initializer.")
                 ELSE r1
       IN  Resolved([r2 EXCEPT !.currentSuperCall = FALSE,
                               !.currentFunction = Head(work).enclosingFunction,
                               !.currentLoop = Head(work).enclosingLoop],
                    <<>>)

R_visitBlockStmt ==
    \/ /\ Resolving("Block")
       /\ Resolved(beginScope(Resolver),
                   VisitAll(Head(work).s.statements) \o <<After("visitBlockStmt")>>)
    \/ /\ Resuming("visitBlockStmt")
       /\ Resolved(endScope(Resolver), <<>>)

HasName(list, name) == \E i \in 1..Len(list) : list[i].name = name

(* The forEach loops of visitClassStmt over methods and getters, as work.  *)
classMembers(stmt) ==
    [i \in 1..Len(stmt.methods) |->
        [t |-> "method", m |-> stmt.methods[i], getters |-> stmt.getters,
         isStatic |-> FALSE]]
    \o [i \in 1..Len(stmt.staticMethods) |->
        [t |-> "method", m |-> stmt.staticMethods[i], getters |-> stmt.staticGetters,
         isStatic |-> TRUE]]
    \o [i \in 1..Len(stmt.getters) |-> [t |-> "getter", g |-> stmt.getters[i]]]
    \o [i \in 1..Len(stmt.staticGetters) |-> [t |-> "getter", g |-> stmt.staticGetters[i]]]

(* The FunctionType a method is resolved as.                               *)
declarationOf(m, isStatic) ==
    IF m.name = "init"
    THEN (IF isStatic THEN "STATIC_INITIALIZER" ELSE "INITIALIZER")
    ELSE "METHOD"

R_visitClassStmt ==
    \/ /\ Resolving("Class")
       /\ LET stmt == Head(work).s
              r1 == define(declare(Resolver, stmt.name), stmt.name)
              r2 == [r1 EXCEPT !.currentClass = "CLASS"]
              r3 == IF stmt.name = stmt.superclass.name
                    THEN error(r2, "A class can't inherit from itself.")
                    ELSE r2
              body == [t |-> "classBody", stmt |-> stmt, enclosingClass |-> r1.currentClass]
          IN  IF stmt.superclass # None
              THEN Resolved([r3 EXCEPT !.currentClass = "DERIVED"],
                            <<Visit(stmt.superclass), body>>)
              ELSE Resolved(r2, <<body>>)
    \/ /\ Resuming("classBody")
       /\ LET stmt == Head(work).stmt
              r1 == IF stmt.superclass # None
                    THEN SetTop(beginScope(Resolver), "super", "USED")
                    ELSE Resolver
          IN  Resolved(SetTop(beginScope(r1), "this", "USED"),
                       classMembers(stmt)
                           \o <<[t |-> "classEnd", stmt |-> stmt,
                                 enclosingClass |-> Head(work).enclosingClass]>>)
    \/ /\ Resuming("method")
       /\ LET m == Head(work).m
              isStatic == Head(work).isStatic
              r1 == IF HasName(Head(work).getters, m.name)
                    THEN error(Resolver,
                               "Duplicate method and getter name '" \o m.name \o "' in class.")
                    ELSE Resolver
              r2 == IF m.name = "init" /\ isStatic /\ Len(m.params) > 0
                    THEN error(r1, "Class static initializer can't have parameters.")
                    ELSE r1
          IN  Resolved(resolveFunctionBegin(r2, m, declarationOf(m, isStatic)),
                       resolveFunctionTodo(r2, m, declarationOf(m, isStatic)))
    \/ /\ Resuming("getter")
       /\ Resolved(resolveFunctionBegin(Resolver, Head(work).g, "METHOD"),
                   resolveFunctionTodo(Resolver, Head(work).g, "METHOD"))
    \/ /\ Resuming("classEnd")
       /\ LET r1 == endScope(Resolver)
              r2 == IF Head(work).stmt.superclass # None THEN endScope(r1) ELSE r1
          IN  Resolved([r2 EXCEPT !.currentClass = Head(work).enclosingClass], <<>>)

R_visitFunctionStmt ==
    /\ Resolving("Function")
    /\ LET stmt == Head(work).s
           r1 == define(declare(Resolver, stmt.name), stmt.name)
       IN  Resolved(resolveFunctionBegin(r1, stmt, "FUNCTION"),
                    resolveFunctionTodo(r1, stmt, "FUNCTION"))

R_visitVarStmt ==
    \/ /\ Resolving("Var")
       /\ LET stmt == Head(work).s
          IN  Resolved(declare(Resolver, stmt.name),
                       (IF stmt.initializer # None THEN <<Visit(stmt.initializer)>> ELSE <<>>)
                           \o <<[t |-> "visitVarStmt", name |-> stmt.name]>>)
    \/ /\ Resuming("visitVarStmt")
       /\ Resolved(define(Resolver, Head(work).name), <<>>)

R_visitExpressionStmt ==
    /\ Resolving("Expression")
    /\ Resolved(Resolver, <<Visit(Head(work).s.expression)>>)

R_visitIfStmt ==
    /\ Resolving("If")
    /\ LET stmt == Head(work).s
       IN  Resolved(Resolver,
                    <<Visit(stmt.condition), Visit(stmt.thenBranch)>>
                        \o (IF stmt.elseBranch # None THEN <<Visit(stmt.elseBranch)>>
                            ELSE <<>>))

R_visitPrintStmt ==
    /\ Resolving("Print")
    /\ Resolved(Resolver, <<Visit(Head(work).s.expression)>>)

R_visitWhileStmt ==
    \/ /\ Resolving("While")
       /\ Resolved(Resolver,
                   <<Visit(Head(work).s.condition),
                     [t |-> "whileBody", body |-> Head(work).s.body]>>)
    \/ /\ Resuming("whileBody")
       /\ Resolved([Resolver EXCEPT !.currentLoop = "WHILE"],
                   <<Visit(Head(work).body),
                     [t |-> "whileEnd", enclosingLoop |-> resolver.currentLoop]>>)
    \/ /\ Resuming("whileEnd")
       /\ Resolved([Resolver EXCEPT !.currentLoop = Head(work).enclosingLoop], <<>>)

R_visitReturnStmt ==
    /\ Resolving("Return")
    /\ LET stmt == Head(work).s
           r1 == IF resolver.currentFunction = "NONE"
                 THEN error(Resolver, "Can't return from top-level code.")
                 ELSE Resolver
           r2 == IF r1.currentFunction \in {"INITIALIZER", "STATIC_INITIALIZER"}
                 THEN error(r1, "Can't return a value from an initializer.")
                 ELSE r1
       IN  IF stmt.value # None
           THEN Resolved(r2, <<Visit(stmt.value)>>)
           ELSE Resolved(r1, <<>>)

R_visitContinueStmt ==
    /\ Resolving("Continue")
    /\ Resolved(IF resolver.currentLoop = "NONE"
                THEN error(Resolver, "Illegal continue statement.")
                ELSE Resolver,
                <<>>)

R_visitBreakStmt ==
    /\ Resolving("Break")
    /\ Resolved(IF resolver.currentLoop = "NONE"
                THEN error(Resolver, "Illegal continue statement.")
                ELSE Resolver,
                <<>>)

R_visitAssignExpr ==
    \/ /\ Resolving("Assign")
       /\ Resolved(Resolver,
                   <<Visit(Head(work).s.value),
                     [t |-> "visitAssignExpr", expr |-> Head(work).s]>>)
    \/ /\ Resuming("visitAssignExpr")
       /\ Resolved(resolveLocal(Resolver, Head(work).expr.id, Head(work).expr.name), <<>>)

R_visitVariableExpr ==
    /\ Resolving("Variable")
    /\ LET expr == Head(work).s
           scopes == resolver.scopes
       IN  Resolved(resolveLocal(
                        IF /\ Len(scopes) # 0
                           /\ MapHas(scopes[Len(scopes)], expr.name)
                           /\ MapGet(scopes[Len(scopes)], expr.name) = "DECLARED"
                        THEN error(Resolver,
                                   "Can't read local variable in it's own initializer.")
                        ELSE Resolver,
                        expr.id, expr.name),
                    <<>>)

R_visitFunctionExprExpr ==
    /\ Resolving("FunctionExpr")
    /\ Resolved(resolveFunctionBegin(Resolver, Head(work).s, "FUNCTION"),
                resolveFunctionTodo(Resolver, Head(work).s, "FUNCTION"))

R_visitBinaryExpr ==
    /\ Resolving("Binary")
    /\ Resolved(Resolver, <<Visit(Head(work).s.left), Visit(Head(work).s.right)>>)

R_visitCallExpr ==
    /\ Resolving("Call")
    /\ Resolved(Resolver, <<Visit(Head(work).s.callee)>> \o VisitAll(Head(work).s.args))

R_visitGetExpr ==
    /\ Resolving("Get")
    /\ Resolved(Resolver, <<Visit(Head(work).s.object)>>)

R_visitSetExpr ==
    /\ Resolving("Set")
    /\ Resolved(Resolver, <<Visit(Head(work).s.value), Visit(Head(work).s.object)>>)

R_visitThisExpr ==
    /\ Resolving("This")
    /\ Resolved(resolveLocal(IF resolver.currentClass = "NONE"
                             THEN error(Resolver, "Can't use 'this' outside of a class.")
                             ELSE Resolver,
                             Head(work).s.id, "this"),
                <<>>)

R_visitSuperExpr ==
    /\ Resolving("Super")
    /\ LET r1 == IF resolver.currentClass # "DERIVED"
                 THEN error(Resolver, "Can't use 'super' outside of a derived class.")
                 ELSE Resolver
           r2 == IF r1.currentFunction = "INITIALIZER" /\ ~r1.currentSuperCall
                 THEN error(r1,
                        "Can't access property on superclass until 'super' has been called.")
                 ELSE r1
       IN  Resolved(resolveLocal(r2, Head(work).s.id, "super"), <<>>)

R_visitSuperCallExpr ==
    /\ Resolving("SuperCall")
    /\ LET r1 == IF resolver.currentClass # "DERIVED"
                 THEN error(Resolver, "Can't use 'super' outside of a derived class.")
                 ELSE Resolver
           r2 == IF r1.currentFunction = "STATIC_INITIALIZER"
                 THEN error(r1, "Can't call 'super' inisde class static initializer.")
                 ELSE IF r1.currentFunction # "INITIALIZER"
                      THEN error(r1, "Can't call 'super' outside of class initializer.")
                      ELSE r1
           r3 == IF r2.currentFunction = "INITIALIZER" /\ r2.currentSuperCall
                 THEN error(r2, "Can't call 'super' more than once inside class initializer.")
                 ELSE r2
       IN  Resolved(resolveLocal([r3 EXCEPT !.currentSuperCall = TRUE],
                                 Head(work).s.id, "super"),
                    VisitAll(Head(work).s.args))

R_visitLiteralExpr ==
    /\ Resolving("Literal")
    /\ Resolved(Resolver, <<>>)

-----------------------------------------------------------------------------
(* Outcomes of an operation that may throw.  kind "ok" carries the value;  *)
(* "RuntimeError" is errors/RuntimeError (it has a token and a message);   *)
(* "TypeError" is an exception raised by JavaScript itself.                *)

Ok(v) == [kind |-> "ok", v |-> v, message |-> ""]
RuntimeError(message) == [kind |-> "RuntimeError", v |-> Nil, message |-> message]
TypeError(message) == [kind |-> "TypeError", v |-> Nil, message |-> message]
ReturnError(v) == [kind |-> "ReturnError", v |-> v, message |-> ""]
BreakError == [kind |-> "BreakError", v |-> Nil, message |-> ""]
ContinueError == [kind |-> "ContinueError", v |-> Nil, message |-> ""]

-----------------------------------------------------------------------------
(* Environment: a frame is a Map of values and an enclosing frame (0 when  *)
(* there is none).  E is the heap of frames.                               *)

Globals == 1

NewEnvironment(E, enclosing) == Append(E, [values |-> EmptyMap, enclosing |-> enclosing])

Env_define(E, e, name, value) == [E EXCEPT ![e].values = MapSet(@, name, value)]

Env_get(E, e, name) ==
    IF MapHas(E[e].values, name)
    THEN Ok(MapGet(E[e].values, name))
    ELSE RuntimeError("Undefined variable '" \o name \o "'.")

RECURSIVE Env_holder(_, _, _)
Env_holder(E, e, name) ==
    IF e = 0 THEN 0
    ELSE IF MapHas(E[e].values, name) THEN e
    ELSE Env_holder(E, E[e].enclosing, name)

(* The result of an assignment: the outcome and the heap after it.         *)
Env_assign(E, e, name, value) ==
    LET h == Env_holder(E, e, name)
    IN  IF h # 0
        THEN [res |-> Ok(value), E |-> Env_define(E, h, name, value)]
        ELSE [res |-> RuntimeError("Undefined variable '" \o name \o "'."), E |-> E]

RECURSIVE Env_ancestor(_, _, _)
Env_ancestor(E, e, distance) ==
    IF e = 0 \/ distance <= 0 THEN e
    ELSE Env_ancestor(E, E[e].enclosing, distance - 1)

(* style "map": the frame's Map is read and written directly, so an absent *)
(* name reads as undefined and a write creates it; style "checked": an     *)
(* absent name is a runtime error.                                         *)
Env_getAt(E, e, distance, name, style) ==
    LET a == Env_ancestor(E, e, distance)
    IN  IF a = 0 THEN TypeError("Cannot read properties of undefined")
        ELSE IF MapHas(E[a].values, name) THEN Ok(MapGet(E[a].values, name))
        ELSE IF style = "map" THEN Ok(Undefined)
        ELSE RuntimeError("Undefined variable '" \o name \o "'.")

Env_assignAt(E, e, distance, name, value, style) ==
    LET a == Env_ancestor(E, e, distance)
    IN  IF a = 0 THEN [res |-> TypeError("Cannot read properties of undefined"), E |-> E]
        ELSE IF MapHas(E[a].values, name) \/ style = "map"
        THEN [res |-> Ok(value), E |-> Env_define(E, a, name, value)]
        ELSE [res |-> RuntimeError("Undefined variable '" \o name \o "'."), E |-> E]

-----------------------------------------------------------------------------
(* CallableFunction, LoxClass, LoxInstance: pure parts.                    *)

NewCallableFunction(declaration, closure, isInitializer) ==
    [declaration |-> declaration, closure |-> closure, isInitializer |-> isInitializer]

(* bind defining `this' in the method's own closure instead of a new       *)
(* frame: every binding of the method shares one `this'.                   *)
bindInPlace(E, F, f, instance) ==
    [E |-> Env_define(E, F[f].closure, "this", instance),
     F |-> Append(F, NewCallableFunction(F[f].declaration, F[f].closure, F[f].isInitializer))]

(* CallableFunction.bind: the heaps after it; the bound function is the    *)
(* last element of F.                                                      *)
bind(E, F, f, instance) ==
    [E |-> Append(E, [values |-> MapSet(EmptyMap, "this", instance),
                      enclosing |-> F[f].closure]),
     F |-> Append(F, NewCallableFunction(F[f].declaration, Len(E) + 1, F[f].isInitializer))]

(* findMethod looking in the class's own table only.                       *)
findMethodOwn(C, c, method, isStatic) ==
    LET table == IF isStatic THEN C[c].staticMethods ELSE C[c].methods
    IN  IF MapHas(table, method) THEN MapGet(table, method) ELSE 0

RECURSIVE findMethod(_, _, _, _)
findMethod(C, c, method, isStatic) ==
    LET table == IF isStatic THEN C[c].staticMethods ELSE C[c].methods
    IN  IF MapHas(table, method) THEN MapGet(table, method)
        ELSE IF C[c].superclass # 0 THEN findMethod(C, C[c].superclass, method, isStatic)
        ELSE 0

RECURSIVE findGetter(_, _, _, _)
findGetter(C, c, getter, isStatic) ==
    LET table == IF isStatic THEN C[c].staticGetters ELSE C[c].getters
    IN  IF MapHas(table, getter) THEN MapGet(table, getter)
        ELSE IF C[c].superclass # 0 THEN findGetter(C, C[c].superclass, getter, isStatic)
        ELSE 0

CallableFunction_arity(F, f) == Len(F[f].declaration.params)

LoxClass_arity(C, F, c) ==
    LET initializer == findMethod(C, c, "init", FALSE)
    IN  IF initializer # 0 THEN CallableFunction_arity(F, initializer) ELSE 0

(* Callable.ts isCallable: `"arity" in obj && "call" in obj'.  The `in'    *)
(* operator throws a TypeError when obj is not an object.                  *)
isCallable(obj) ==
    IF obj.t \in {"nil", "undefined", "bool", "num", "str"}
    THEN TypeError("Cannot use 'in' operator to search for 'arity'")
    ELSE Ok(Bool(obj.t \in {"fn", "class", "native"}))

arity(C, F, callee) ==
    CASE callee.t = "fn" -> CallableFunction_arity(F, callee.n)
      [] callee.t = "class" -> LoxClass_arity(C, F, callee.n)
      [] OTHER -> 0

IsInstance(obj) == obj.t \in {"inst", "class"}

Fields(C, I, obj) == IF obj.t = "class" THEN C[obj.n].fields ELSE I[obj.n].fields

Klass(I, obj) == IF obj.t = "class" THEN obj.n ELSE I[obj.n].klass

-----------------------------------------------------------------------------
(* Interpreter: pure helpers.                                              *)

isTruthy(obj) ==
    IF obj.t = "nil" THEN FALSE
    ELSE IF obj.t = "bool" THEN obj.n = 1
    ELSE TRUE

isEqual(a, b) == a = b

toString(C, I, F, obj) ==
    CASE obj.t = "bool" -> IF obj.n = 1 THEN "true" ELSE "false"
      [] obj.t = "str" -> obj.s
      [] obj.t = "fn" ->
           "<fn " \o (IF F[obj.n].declaration.k = "Function"
                      THEN F[obj.n].declaration.name ELSE "<expr>") \o ">"
      [] obj.t = "native" -> "<native fn>"
      [] obj.t = "class" -> C[obj.n].name
      [] obj.t = "inst" -> C[I[obj.n].klass].name \o " instance"

stringify(C, I, F, obj) ==
    IF obj.t = "nil" THEN Ok(Str("nil"))
    ELSE IF obj.t = "num" THEN Ok(Str(ToString(obj.n)))
    ELSE IF obj.t = "undefined" THEN TypeError("Cannot read properties of undefined")
    ELSE Ok(Str(toString(C, I, F, obj)))

checkNumberOperands(left, right, result) ==
    IF left.t = "num" /\ right.t = "num" THEN Ok(result)
    ELSE RuntimeError("Operands must be numbers.")

(* Numbers are integers in the model; `/' is used on exact quotients.      *)
binaryOp(C, I, F, operator, left, right) ==
    CASE operator = "-" -> checkNumberOperands(left, right, Num(left.n - right.n))
      [] operator = "/" ->
           IF left.t = "num" /\ right.t = "num" /\ right.n = 0
           THEN RuntimeError("Cannot divide by 0.")
           ELSE checkNumberOperands(left, right,
                    Num(IF right.n = 0 THEN 0 ELSE left.n \div right.n))
      [] operator = "*" -> checkNumberOperands(left, right, Num(left.n * right.n))
      [] operator = "+" ->
           IF left.t = "num" /\ right.t = "num" THEN Ok(Num(left.n + right.n))
           ELSE IF left.t = "str" \/ right.t = "str"
           THEN LET l == stringify(C, I, F, left)
                    r == stringify(C, I, F, right)
                IN  IF l.kind # "ok" THEN l
                    ELSE IF r.kind # "ok" THEN r
                    ELSE Ok(Str(l.v.s \o r.v.s))
           ELSE RuntimeError("Operands must be two numbers or a string and an object.")
      [] operator = ">" -> checkNumberOperands(left, right, Bool(left.n > right.n))
      [] operator = ">=" -> checkNumberOperands(left, right, Bool(left.n >= right.n))
      [] operator = "<" -> checkNumberOperands(left, right, Bool(left.n < right.n))
      [] operator = "<=" -> checkNumberOperands(left, right, Bool(left.n <= right.n))
      [] operator = "==" -> Ok(Bool(isEqual(left, right)))
      [] operator = "!=" -> Ok(Bool(~isEqual(left, right)))

lookUpVariable(E, L, e, name, id, style) ==
    IF MapHas(L, id)
    THEN Env_getAt(E, e, MapGet(L, id), name, style)
    ELSE Env_get(E, Globals, name)

-----------------------------------------------------------------------------
(* The machine.  ctrl is one of: Exec(s) (execute(s) was called), Eval(e)  *)
(* (evaluate(e) was called), Val(v) (an evaluation returned v), Done (a    *)
(* statement completed), Throw(err) (an exception is propagating),         *)
(* Invoke(callee, args) (callee.call(interpreter, args) was called).       *)

Idle == [c |-> "idle"]
Exec(s) == [c |-> "exec", s |-> s]
Eval(e) == [c |-> "eval", e |-> e]
Val(v) == [c |-> "val", v |-> v]
Done == [c |-> "done"]
Throw(err) == [c |-> "throw", err |-> err]
Invoke(callee, args) == [c |-> "invoke", callee |-> callee, args |-> args]

Outcome(res) == IF res.kind = "ok" THEN Val(res.v) ELSE Throw(res)

Top == kont[Len(kont)]
Pop == SubSeq(kont, 1, Len(kont) - 1)
Push(frame) == Append(kont, frame)
Replace(frame) == Append(Pop, frame)

Executing(kind) == pc = "running" /\ ctrl.c = "exec" /\ ctrl.s.k = kind
Evaluating(kind) == pc = "running" /\ ctrl.c = "eval" /\ ctrl.e.k = kind
Returned(frame) == pc = "running" /\ ctrl.c = "val" /\ Top.f = frame
Completed(frame) == pc = "running" /\ ctrl.c = "done" /\ Top.f = frame
Thrown(frame) == pc = "running" /\ ctrl.c = "throw" /\ Top.f = frame

-----------------------------------------------------------------------------
(* Interpreter.executeBlock.                                               *)

(* executeBlock without its finally clause: the environment is restored    *)
(* on normal completion only.                                              *)
executeBlockNoFinally(frame, c) == IF c = "throw" THEN environment ELSE frame.previous

(* The environment the finally clause leaves, for a block left by          *)
(* completion c ("done" or "throw").                                       *)
executeBlockFinally(frame, c) == frame.previous

(* The call: previous is saved, the environment switched, and the first    *)
(* statement executed.  K is the call stack of the caller.                 *)
executeBlockCall(K, statements, env) ==
    /\ kont' = Append(K, [f |-> "block", previous |-> environment,
                          rest |-> IF statements = <<>> THEN <<>> ELSE Tail(statements)])
    /\ environment' = env
    /\ ctrl' = IF statements = <<>> THEN Done ELSE Exec(Head(statements))

executeBlock ==
    /\ pc = "running"
    /\ Top.f = "block"
    /\ \/ /\ ctrl.c = "done"
          /\ Top.rest # <<>>
          /\ ctrl' = Exec(Head(Top.rest))
          /\ kont' = Replace([Top EXCEPT !.rest = Tail(@)])
          /\ UNCHANGED environment
       \/ /\ ctrl.c = "done"
          /\ Top.rest = <<>>
          /\ environment' = executeBlockFinally(Top, "done")
          /\ kont' = Pop
          /\ UNCHANGED ctrl
       \/ /\ ctrl.c = "throw"
          /\ environment' = executeBlockFinally(Top, "throw")
          /\ kont' = Pop
          /\ UNCHANGED ctrl
    /\ UNCHANGED <<driver, output, locals, heap>>

-----------------------------------------------------------------------------
(* Interpreter: statements.                                                *)

visitExpressionStmt ==
    /\ \/ /\ Executing("Expression")
          /\ ctrl' = Eval(ctrl.s.expression)
          /\ kont' = Push([f |-> "expressionStmt"])
       \/ /\ Returned("expressionStmt")
          /\ ctrl' = Done
          /\ kont' = Pop
    /\ UNCHANGED <<driver, output, locals, environment, heap>>

visitPrintStmt ==
    \/ /\ Executing("Print")
       /\ ctrl' = Eval(ctrl.s.expression)
       /\ kont' = Push([f |-> "printStmt"])
       /\ UNCHANGED <<driver, output, locals, environment, heap>>
    \/ /\ Returned("printStmt")
       /\ LET str == stringify(classes, insts, funs, ctrl.v)
          IN  /\ ctrl' = IF str.kind = "ok" THEN Done ELSE Throw(str)
              /\ output' = IF str.kind = "ok" THEN Append(output, str.v.s) ELSE output
       /\ kont' = Pop
       /\ UNCHANGED <<driver, locals, environment, heap>>

visitVarStmt ==
    \/ /\ Executing("Var")
       /\ ctrl.s.initializer # None
       /\ ctrl' = Eval(ctrl.s.initializer)
       /\ kont' = Push([f |-> "varStmt", stmt |-> ctrl.s])
       /\ UNCHANGED <<driver, output, locals, environment, heap>>
    \/ /\ Executing("Var")
       /\ ctrl.s.initializer = None
       /\ envs' = Env_define(envs, environment, ctrl.s.name, Nil)
       /\ ctrl' = Done
       /\ UNCHANGED <<driver, output, locals, environment, funs, classes, insts, kont>>
    \/ /\ Returned("varStmt")
       /\ envs' = Env_define(envs, environment, Top.stmt.name, ctrl.v)
       /\ ctrl' = Done
       /\ kont' = Pop
       /\ UNCHANGED <<driver, output, locals, environment, funs, classes, insts>>

visitBlockStmt ==
    /\ Executing("Block")
    /\ envs' = NewEnvironment(envs, environment)
    /\ executeBlockCall(kont, ctrl.s.statements, Len(envs) + 1)
    /\ UNCHANGED <<driver, output, locals, funs, classes, insts>>

visitIfStmt ==
    /\ \/ /\ Executing("If")
          /\ ctrl' = Eval(ctrl.s.condition)
          /\ kont' = Push([f |-> "ifStmt", stmt |-> ctrl.s])
       \/ /\ Returned("ifStmt")
          /\ isTruthy(ctrl.v)
          /\ ctrl' = Exec(Top.stmt.thenBranch)
          /\ kont' = Pop
       \/ /\ Returned("ifStmt")
          /\ ~isTruthy(ctrl.v)
          /\ ctrl' = IF Top.stmt.elseBranch # None THEN Exec(Top.stmt.elseBranch) ELSE Done
          /\ kont' = Pop
    /\ UNCHANGED <<driver, output, locals, environment, heap>>

(* The catch clause of visitWhileStmt ending the loop on every error but   *)
(* ContinueError, instead of rethrowing what is not a BreakError.          *)
whileCatchAll(stmt, err) ==
    IF err.kind = "ContinueError"
    THEN (IF stmt.isFor /\ stmt.hasIncrement THEN "increment" ELSE "continue")
    ELSE "break"

(* What the catch clause of visitWhileStmt does with an error thrown by    *)
(* the body: "break", "continue", "increment" (execute the increment and   *)
(* continue) or "rethrow".                                                 *)
whileCatch(stmt, err) ==
    IF err.kind = "BreakError" THEN "break"
    ELSE IF err.kind = "ContinueError"
    THEN (IF stmt.isFor /\ stmt.hasIncrement THEN "increment" ELSE "continue")
    ELSE "rethrow"

visitWhileStmt ==
    /\ \/ /\ Executing("While")
          /\ ctrl' = Eval(ctrl.s.condition)
          /\ kont' = Push([f |-> "whileCondition", stmt |-> ctrl.s])
       \/ /\ Returned("whileCondition")
          /\ isTruthy(ctrl.v)
          /\ ctrl' = Exec(Top.stmt.body)
          /\ kont' = Replace([f |-> "whileBody", stmt |-> Top.stmt])
       \/ /\ Returned("whileCondition")
          /\ ~isTruthy(ctrl.v)
          /\ ctrl' = Done
          /\ kont' = Pop
       \/ /\ Completed("whileBody")
          /\ ctrl' = Eval(Top.stmt.condition)
          /\ kont' = Replace([f |-> "whileCondition", stmt |-> Top.stmt])
       \/ /\ Thrown("whileBody")
          /\ whileCatch(Top.stmt, ctrl.err) = "break"
          /\ ctrl' = Done
          /\ kont' = Pop
       \/ /\ Thrown("whileBody")
          /\ whileCatch(Top.stmt, ctrl.err) = "continue"
          /\ ctrl' = Eval(Top.stmt.condition)
          /\ kont' = Replace([f |-> "whileCondition", stmt |-> Top.stmt])
       \/ /\ Thrown("whileBody")
          /\ whileCatch(Top.stmt, ctrl.err) = "increment"
          /\ ctrl' = Exec(Top.stmt.body.statements[2])
          /\ kont' = Replace([f |-> "whileIncrement", stmt |-> Top.stmt])
       \/ /\ Completed("whileIncrement")
          /\ ctrl' = Eval(Top.stmt.condition)
          /\ kont' = Replace([f |-> "whileCondition", stmt |-> Top.stmt])
       \/ /\ Thrown("whileBody")
          /\ whileCatch(Top.stmt, ctrl.err) = "rethrow"
          /\ UNCHANGED ctrl
          /\ kont' = Pop
    /\ UNCHANGED <<driver, output, locals, environment, heap>>

visitFunctionStmt ==
    /\ Executing("Function")
    /\ funs' = Append(funs, NewCallableFunction(ctrl.s, environment, FALSE))
    /\ envs' = Env_define(envs, environment, ctrl.s.name, FunV(Len(funs) + 1))
    /\ ctrl' = Done
    /\ UNCHANGED <<driver, output, locals, environment, classes, insts, kont>>

visitReturnStmt ==
    /\ \/ /\ Executing("Return")
          /\ ctrl.s.value # None
          /\ ctrl' = Eval(ctrl.s.value)
          /\ kont' = Push([f |-> "returnStmt"])
       \/ /\ Executing("Return")
          /\ ctrl.s.value = None
          /\ ctrl' = Throw(ReturnError(Nil))
          /\ UNCHANGED kont
       \/ /\ Returned("returnStmt")
          /\ ctrl' = Throw(ReturnError(ctrl.v))
          /\ kont' = Pop
    /\ UNCHANGED <<driver, output, locals, environment, heap>>

visitBreakStmt ==
    /\ Executing("Break")
    /\ ctrl' = Throw(BreakError)
    /\ UNCHANGED <<driver, output, locals, environment, heap, kont>>

visitContinueStmt ==
    /\ Executing("Continue")
    /\ ctrl' = Throw(ContinueError)
    /\ UNCHANGED <<driver, output, locals, environment, heap, kont>>

-----------------------------------------------------------------------------
(* Interpreter.visitClassStmt and the LoxClass constructor.                *)

(* One forEach over a list of method declarations: each is wrapped in a    *)
(* CallableFunction and stored in the table under its name.                *)
RECURSIVE buildTable(_, _, _, _, _)
buildTable(F, table, decls, closure, isMethods) ==
    IF decls = <<>> THEN [F |-> F, table |-> table]
    ELSE LET m == Head(decls)
         IN  buildTable(
                 Append(F, NewCallableFunction(m, closure, isMethods /\ m.name = "init")),
                 MapSet(table, m.name, Len(F) + 1),
                 Tail(decls), closure, isMethods)

(* A LoxClass whose superclass link is the class bound to its own name     *)
(* once the declaration has completed: the class itself.                   *)
NewLoxClassSelf(name, superclass, methods, getters, staticMethods, staticGetters) ==
    [name |-> name, superclass |-> IF superclass = 0 THEN 0 ELSE Len(classes) + 1,
     fields |-> EmptyMap, methods |-> methods, getters |-> getters,
     staticMethods |-> staticMethods, staticGetters |-> staticGetters]

NewLoxClass(name, superclass, methods, getters, staticMethods, staticGetters) ==
    [name |-> name, superclass |-> superclass, fields |-> EmptyMap,
     methods |-> methods, getters |-> getters,
     staticMethods |-> staticMethods, staticGetters |-> staticGetters]

(* The static initializer the LoxClass constructor runs (0: none).         *)
staticInitializer(staticMethods) ==
    IF MapHas(staticMethods, "init") THEN MapGet(staticMethods, "init") ELSE 0

(* The end of visitClassStmt without the pop of the `super' frame.         *)
classStmtEndNoPop(K, E, env, stmt, klass, hasSuperclass) ==
    LET a == Env_assign(E, env, stmt.name, ClassV(klass))
    IN  /\ environment' = env
        /\ envs' = a.E
        /\ ctrl' = IF a.res.kind = "ok" THEN Done ELSE Throw(a.res)
        /\ kont' = K

(* The end of visitClassStmt: the `super' frame is popped and the class    *)
(* assigned to its name.  E is the heap of frames, env the current one.    *)
classStmtEnd(K, E, env, stmt, klass, hasSuperclass) ==
    LET outer == IF hasSuperclass THEN E[env].enclosing ELSE env
        a == Env_assign(E, outer, stmt.name, ClassV(klass))
    IN  /\ environment' = outer
        /\ envs' = a.E
        /\ ctrl' = IF a.res.kind = "ok" THEN Done ELSE Throw(a.res)
        /\ kont' = K

(* visitClassStmt once the superclass (0: none) is known.                  *)
classStmtBody(K, stmt, superclass) ==
    LET E1 == Env_define(envs, environment, stmt.name, Nil)
        E2 == IF superclass # 0
              THEN Append(E1, [values |-> MapSet(EmptyMap, "super", ClassV(superclass)),
                               enclosing |-> environment])
              ELSE E1
        env == IF superclass # 0 THEN Len(E2) ELSE environment
        sm == buildTable(funs, EmptyMap, stmt.staticMethods, env, TRUE)
        im == buildTable(sm.F, EmptyMap, stmt.methods, env, TRUE)
        sg == buildTable(im.F, EmptyMap, stmt.staticGetters, env, FALSE)
        ig == buildTable(sg.F, EmptyMap, stmt.getters, env, FALSE)
        klass == Len(classes) + 1
        initializer == staticInitializer(sm.table)
        b == bind(E2, ig.F, initializer, ClassV(klass))
    IN  /\ classes' = Append(classes, NewLoxClass(stmt.name, superclass, im.table, ig.table,
                                                  sm.table, sg.table))
        /\ IF initializer # 0
           THEN /\ envs' = b.E
                /\ funs' = b.F
                /\ environment' = env
                /\ ctrl' = Invoke(FunV(Len(b.F)), <<>>)
                /\ kont' = Append(K, [f |-> "classStmt", stmt |-> stmt, klass |-> klass,
                                      hasSuperclass |-> superclass # 0])
           ELSE /\ funs' = ig.F
                /\ classStmtEnd(K, E2, env, stmt, klass, superclass # 0)

visitClassStmt ==
    \/ /\ Executing("Class")
       /\ ctrl.s.superclass # None
       /\ ctrl' = Eval(ctrl.s.superclass)
       /\ kont' = Push([f |-> "classSuperclass", stmt |-> ctrl.s])
       /\ UNCHANGED <<driver, output, locals, environment, heap>>
    \/ /\ Executing("Class")
       /\ ctrl.s.superclass = None
       /\ classStmtBody(kont, ctrl.s, 0)
       /\ UNCHANGED <<driver, output, locals, insts>>
    \/ /\ Returned("classSuperclass")
       /\ ctrl.v.t # "class"
       /\ ctrl' = Throw(RuntimeError("Superclass must be a class."))
       /\ kont' = Pop
       /\ UNCHANGED <<driver, output, locals, environment, heap>>
    \/ /\ Returned("classSuperclass")
       /\ ctrl.v.t = "class"
       /\ classStmtBody(Pop, Top.stmt, ctrl.v.n)
       /\ UNCHANGED <<driver, output, locals, insts>>
    \/ /\ Returned("classStmt")
       /\ classStmtEnd(Pop, envs, environment, Top.stmt, Top.klass, Top.hasSuperclass)
       /\ UNCHANGED <<driver, output, locals, funs, classes, insts>>

-----------------------------------------------------------------------------
(* Interpreter: expressions.                                               *)

visitLiteralExpr ==
    /\ Evaluating("Literal")
    /\ ctrl' = Val(ctrl.e.value)
    /\ UNCHANGED <<driver, output, locals, environment, heap, kont>>

visitVariableExpr ==
    /\ Evaluating("Variable")
    /\ ctrl' = Outcome(lookUpVariable(envs, locals, environment, ctrl.e.name, ctrl.e.id,
                                      getAtStyle))
    /\ UNCHANGED <<driver, output, locals, environment, heap, kont>>

visitThisExpr ==
    /\ Evaluating("This")
    /\ ctrl' = Outcome(lookUpVariable(envs, locals, environment, "this", ctrl.e.id,
                                      getAtStyle))
    /\ UNCHANGED <<driver, output, locals, environment, heap, kont>>

(* visitAssignExpr writing into the current frame whatever the distance:   *)
(* a function that works on its own copy of a captured variable.           *)
assignVariableCopy(E, L, e, expr, value, style) ==
    [res |-> Ok(value), E |-> Env_define(E, e, expr.name, value)]

(* The store of visitAssignExpr: the outcome and the heap of frames.       *)
assignVariable(E, L, e, expr, value, style) ==
    IF MapHas(L, expr.id)
    THEN Env_assignAt(E, e, MapGet(L, expr.id), expr.name, value, style)
    ELSE Env_assign(E, Globals, expr.name, value)

visitAssignExpr ==
    \/ /\ Evaluating("Assign")
       /\ ctrl' = Eval(ctrl.e.value)
       /\ kont' = Push([f |-> "assignExpr", expr |-> ctrl.e])
       /\ UNCHANGED <<driver, output, locals, environment, heap>>
    \/ /\ Returned("assignExpr")
       /\ LET a == assignVariable(envs, locals, environment, Top.expr, ctrl.v, getAtStyle)
          IN  /\ envs' = a.E
              /\ ctrl' = Outcome(a.res)
       /\ kont' = Pop
       /\ UNCHANGED <<driver, output, locals, environment, funs, classes, insts>>

visitBinaryExpr ==
    /\ \/ /\ Evaluating("Binary")
          /\ ctrl' = Eval(ctrl.e.left)
          /\ kont' = Push([f |-> "binaryLeft", expr |-> ctrl.e])
       \/ /\ Returned("binaryLeft")
          /\ ctrl' = Eval(Top.expr.right)
          /\ kont' = Replace([f |-> "binaryRight", expr |-> Top.expr, left |-> ctrl.v])
       \/ /\ Returned("binaryRight")
          /\ ctrl' = Outcome(binaryOp(classes, insts, funs, Top.expr.operator, Top.left, ctrl.v))
          /\ kont' = Pop
    /\ UNCHANGED <<driver, output, locals, environment, heap>>

visitFunctionExprExpr ==
    /\ Evaluating("FunctionExpr")
    /\ funs' = Append(funs, NewCallableFunction(ctrl.e, environment, FALSE))
    /\ ctrl' = Val(FunV(Len(funs) + 1))
    /\ UNCHANGED <<driver, output, locals, environment, envs, classes, insts, kont>>

(* visitCallExpr after the callee and the arguments are evaluated.         *)
callChecks(C, F, callee, args) ==
    LET callable == isCallable(callee)
    IN  IF callable.kind # "ok" THEN Throw(callable)
        ELSE IF callable.v.n = 0
        THEN Throw(RuntimeError("Can only call functions and classes."))
        ELSE IF Len(args) # arity(C, F, callee)
        THEN Throw(RuntimeError("Expected " \o ToString(arity(C, F, callee))
                                \o " arguments but got " \o ToString(Len(args)) \o "."))
        ELSE Invoke(callee, args)

visitCallExpr ==
    /\ \/ /\ Evaluating("Call")
          /\ ctrl' = Eval(ctrl.e.callee)
          /\ kont' = Push([f |-> "callCallee", expr |-> ctrl.e])
       \/ /\ Returned("callCallee")
          /\ Top.expr.args # <<>>
          /\ ctrl' = Eval(Head(Top.expr.args))
          /\ kont' = Replace([f |-> "callArgs", callee |-> ctrl.v, args |-> <<>>,
                              rest |-> Tail(Top.expr.args)])
       \/ /\ Returned("callCallee")
          /\ Top.expr.args = <<>>
          /\ ctrl' = callChecks(classes, funs, ctrl.v, <<>>)
          /\ kont' = Pop
       \/ /\ Returned("callArgs")
          /\ Top.rest # <<>>
          /\ ctrl' = Eval(Head(Top.rest))
          /\ kont' = Replace([Top EXCEPT !.args = Append(@, ctrl.v), !.rest = Tail(@)])
       \/ /\ Returned("callArgs")
          /\ Top.rest = <<>>
          /\ ctrl' = callChecks(classes, funs, Top.callee, Append(Top.args, ctrl.v))
          /\ kont' = Pop
    /\ UNCHANGED <<driver, output, locals, environment, heap>>

(* The lookup asking the class for a method before a getter.               *)
findPropertyMethodFirst(C, klass, name, isStatic) ==
    LET getter == findGetter(C, klass, name, isStatic)
        method == findMethod(C, klass, name, isStatic)
    IN  IF method # 0 THEN [kind |-> "method", f |-> method]
        ELSE IF getter # 0 THEN [kind |-> "getter", f |-> getter]
        ELSE [kind |-> "none", f |-> 0]

(* LoxInstance.get(name, interpreter, isStatic) on obj, and the lookup of  *)
(* visitSuperExpr on superclass: what is found for the name.               *)
findProperty(C, klass, name, isStatic) ==
    LET getter == findGetter(C, klass, name, isStatic)
        method == findMethod(C, klass, name, isStatic)
    IN  IF getter # 0 THEN [kind |-> "getter", f |-> getter]
        ELSE IF method # 0 THEN [kind |-> "method", f |-> method]
        ELSE [kind |-> "none", f |-> 0]

(* LoxInstance.get that asks for instance members whatever the object.     *)
LoxInstance_getInstanceTables(C, I, obj, name) ==
    IF MapHas(Fields(C, I, obj), name) THEN [kind |-> "field", f |-> 0]
    ELSE findProperty(C, Klass(I, obj), name, FALSE)

LoxInstance_get(C, I, obj, name) ==
    IF MapHas(Fields(C, I, obj), name) THEN [kind |-> "field", f |-> 0]
    ELSE findProperty(C, Klass(I, obj), name, obj.t = "class")

(* A getter is bound and called, a method is bound and returned.           *)
bindProperty(K, found, obj, name) ==
    LET b == bind(envs, funs, found.f, obj)
    IN  /\ kont' = K
        /\ IF found.kind = "none"
           THEN /\ ctrl' = Throw(RuntimeError("Undefined property '" \o name \o "'."))
                /\ UNCHANGED <<envs, funs>>
           ELSE /\ envs' = b.E
                /\ funs' = b.F
                /\ ctrl' = IF found.kind = "getter"
                           THEN Invoke(FunV(Len(b.F)), <<>>)
                           ELSE Val(FunV(Len(b.F)))

visitGetExpr ==
    \/ /\ Evaluating("Get")
       /\ ctrl' = Eval(ctrl.e.object)
       /\ kont' = Push([f |-> "getExpr", expr |-> ctrl.e])
       /\ UNCHANGED <<driver, output, locals, environment, heap>>
    \/ /\ Returned("getExpr")
       /\ ~IsInstance(ctrl.v)
       /\ ctrl' = Throw(RuntimeError("Only instances have properties."))
       /\ kont' = Pop
       /\ UNCHANGED <<driver, output, locals, environment, heap>>
    \/ /\ Returned("getExpr")
       /\ IsInstance(ctrl.v)
       /\ LoxInstance_get(classes, insts, ctrl.v, Top.expr.name).kind = "field"
       /\ ctrl' = Val(MapGet(Fields(classes, insts, ctrl.v), Top.expr.name))
       /\ kont' = Pop
       /\ UNCHANGED <<driver, output, locals, environment, heap>>
    \/ /\ Returned("getExpr")
       /\ IsInstance(ctrl.v)
       /\ LoxInstance_get(classes, insts, ctrl.v, Top.expr.name).kind # "field"
       /\ bindProperty(Pop, LoxInstance_get(classes, insts, ctrl.v, Top.expr.name),
                       ctrl.v, Top.expr.name)
       /\ UNCHANGED <<driver, output, locals, environment, classes, insts>>

(* LoxInstance.set storing the field in a Map of its own: the fields the   *)
(* object had are lost.                                                    *)
LoxInstance_setAlone(C, I, obj, name, value) ==
    IF obj.t = "class"
    THEN [C |-> [C EXCEPT ![obj.n].fields = MapSet(EmptyMap, name, value)], I |-> I]
    ELSE [C |-> C, I |-> [I EXCEPT ![obj.n].fields = MapSet(EmptyMap, name, value)]]

(* LoxInstance.set.                                                        *)
LoxInstance_set(C, I, obj, name, value) ==
    IF obj.t = "class"
    THEN [C |-> [C EXCEPT ![obj.n].fields = MapSet(@, name, value)], I |-> I]
    ELSE [C |-> C, I |-> [I EXCEPT ![obj.n].fields = MapSet(@, name, value)]]

visitSetExpr ==
    \/ /\ Evaluating("Set")
       /\ ctrl' = Eval(ctrl.e.object)
       /\ kont' = Push([f |-> "setObject", expr |-> ctrl.e])
       /\ UNCHANGED <<driver, output, locals, environment, heap>>
    \/ /\ Returned("setObject")
       /\ ~IsInstance(ctrl.v)
       /\ ctrl' = Throw(RuntimeError("Only instances have fields."))
       /\ kont' = Pop
       /\ UNCHANGED <<driver, output, locals, environment, heap>>
    \/ /\ Returned("setObject")
       /\ IsInstance(ctrl.v)
       /\ ctrl' = Eval(Top.expr.value)
       /\ kont' = Replace([f |-> "setValue", expr |-> Top.expr, obj |-> ctrl.v])
       /\ UNCHANGED <<driver, output, locals, environment, heap>>
    \/ /\ Returned("setValue")
       /\ LET after == LoxInstance_set(classes, insts, Top.obj, Top.expr.name, ctrl.v)
          IN  /\ classes' = after.C
              /\ insts' = after.I
       /\ kont' = Pop
       /\ UNCHANGED <<driver, output, locals, environment, envs, funs, ctrl>>

(* super looked up from the class of `this' at run time instead of the     *)
(* superclass stored when the class was declared.                          *)
superLookUpDynamic(E, L, e, expr, style) ==
    LET obj == IF MapHas(L, expr.id)
               THEN Env_getAt(E, e, MapGet(L, expr.id) - 1, "this", style)
               ELSE TypeError("Cannot read properties of undefined")
    IN  [superclass |-> IF obj.kind = "ok" /\ IsInstance(obj.v)
                        THEN Ok(ClassV(classes[Klass(insts, obj.v)].superclass))
                        ELSE obj,
         obj |-> obj]

(* The two reads that open visitSuperExpr and visitSuperCallExpr: the      *)
(* superclass at the resolved distance and `this' one frame nearer.        *)
superLookUp(E, L, e, expr, style) ==
    IF ~MapHas(L, expr.id)
    THEN [superclass |-> TypeError("Cannot read properties of undefined"),
          obj |-> TypeError("Cannot read properties of undefined")]
    ELSE [superclass |-> Env_getAt(E, e, MapGet(L, expr.id), "super", style),
          obj |-> Env_getAt(E, e, MapGet(L, expr.id) - 1, "this", style)]

(* The error the two reads end in, or Ok(Nil) when both are objects.       *)
superLookUpError(l) ==
    IF l.superclass.kind # "ok" THEN l.superclass
    ELSE IF l.obj.kind # "ok" THEN l.obj
    ELSE IF l.superclass.v.t # "class" \/ ~IsInstance(l.obj.v)
    THEN TypeError("Cannot read properties of undefined")
    ELSE Ok(Nil)

visitSuperExpr ==
    /\ Evaluating("Super")
    /\ LET l == superLookUp(envs, locals, environment, ctrl.e, getAtStyle)
       IN  IF superLookUpError(l).kind # "ok"
           THEN /\ ctrl' = Throw(superLookUpError(l))
                /\ UNCHANGED <<envs, funs, kont>>
           ELSE bindProperty(kont,
                             findProperty(classes, l.superclass.v.n, ctrl.e.property,
                                          l.obj.v.t = "class"),
                             l.obj.v, ctrl.e.property)
    /\ UNCHANGED <<driver, output, locals, environment, classes, insts>>

(* visitSuperCallExpr without the comparison of args.length with the       *)
(* superclass's arity.                                                     *)
superCallEndAnyArity(K, superclass, obj, args) ==
    LET initializer == findMethod(classes, superclass, "init", FALSE)
        b == bind(envs, funs, initializer, obj)
    IN  IF initializer # 0
        THEN /\ envs' = b.E
             /\ funs' = b.F
             /\ ctrl' = Invoke(FunV(Len(b.F)), args)
             /\ kont' = Append(K, [f |-> "superCall"])
        ELSE /\ ctrl' = Val(Nil)
             /\ kont' = K
             /\ UNCHANGED <<envs, funs>>

(* visitSuperCallExpr once the arguments are evaluated.                    *)
superCallEnd(K, superclass, obj, args) ==
    LET initializer == findMethod(classes, superclass, "init", FALSE)
        b == bind(envs, funs, initializer, obj)
    IN  IF Len(args) # LoxClass_arity(classes, funs, superclass)
        THEN /\ ctrl' = Throw(RuntimeError(
                            "Expected " \o ToString(LoxClass_arity(classes, funs, superclass))
                            \o " arguments but got " \o ToString(Len(args)) \o "."))
             /\ kont' = K
             /\ UNCHANGED <<envs, funs>>
        ELSE IF initializer # 0
        THEN /\ envs' = b.E
             /\ funs' = b.F
             /\ ctrl' = Invoke(FunV(Len(b.F)), args)
             /\ kont' = Append(K, [f |-> "superCall"])
        ELSE /\ ctrl' = Val(Nil)
             /\ kont' = K
             /\ UNCHANGED <<envs, funs>>

visitSuperCallExpr ==
    \/ /\ Evaluating("SuperCall")
       /\ LET l == superLookUp(envs, locals, environment, ctrl.e, getAtStyle)
          IN  IF superLookUpError(l).kind # "ok"
              THEN /\ ctrl' = Throw(superLookUpError(l))
                   /\ UNCHANGED <<envs, funs, kont>>
              ELSE IF ctrl.e.args = <<>>
              THEN superCallEnd(kont, l.superclass.v.n, l.obj.v, <<>>)
              ELSE /\ ctrl' = Eval(Head(ctrl.e.args))
                   /\ kont' = Push([f |-> "superCallArgs", superclass |-> l.superclass.v.n,
                                    obj |-> l.obj.v, args |-> <<>>,
                                    rest |-> Tail(ctrl.e.args)])
                   /\ UNCHANGED <<envs, funs>>
       /\ UNCHANGED <<driver, output, locals, environment, classes, insts>>
    \/ /\ Returned("superCallArgs")
       /\ Top.rest # <<>>
       /\ ctrl' = Eval(Head(Top.rest))
       /\ kont' = Replace([Top EXCEPT !.args = Append(@, ctrl.v), !.rest = Tail(@)])
       /\ UNCHANGED <<driver, output, locals, environment, heap>>
    \/ /\ Returned("superCallArgs")
       /\ Top.rest = <<>>
       /\ superCallEnd(Pop, Top.superclass, Top.obj, Append(Top.args, ctrl.v))
       /\ UNCHANGED <<driver, output, locals, environment, classes, insts>>
    \/ /\ Returned("superCall")
       /\ ctrl' = Val(Nil)
       /\ kont' = Pop
       /\ UNCHANGED <<driver, output, locals, environment, heap>>

-----------------------------------------------------------------------------
(* Callable.call: CallableFunction.call, LoxClass.call and the native      *)
(* clock.                                                                  *)

(* params.forEach((d, i) => env.define(d.lexeme, args[i])): a parameter    *)
(* without an argument is bound to undefined.                              *)
RECURSIVE defineParams(_, _, _)
defineParams(values, params, args) ==
    IF params = <<>> THEN values
    ELSE defineParams(MapSet(values, Head(params),
                             IF args = <<>> THEN Undefined ELSE Head(args)),
                      Tail(params),
                      IF args = <<>> THEN <<>> ELSE Tail(args))

(* call without the isInitializer test in its catch clause: `return;' in   *)
(* an initializer yields the returned value.                               *)
callResultReturned(E, fn, c) ==
    IF c.c = "throw" /\ c.err.kind = "ReturnError" THEN Ok(c.err.v)
    ELSE IF fn.isInitializer THEN Env_get(E, fn.closure, "this")
    ELSE Ok(Nil)

(* What the call yields once executeBlock has finished with control c:    *)
(* Done, or Throw(err).  The catch clause has a branch for ReturnError     *)
(* only; after any other error control falls out of the try statement to   *)
(* the statements that follow it.                                          *)
callResult(E, fn, c) ==
    IF c.c = "throw" /\ c.err.kind = "ReturnError"
    THEN (IF fn.isInitializer THEN Env_get(E, fn.closure, "this") ELSE Ok(c.err.v))
    ELSE IF fn.isInitializer THEN Env_get(E, fn.closure, "this")
    ELSE Ok(Nil)

CallableFunction_call ==
    \/ /\ pc = "running"
       /\ ctrl.c = "invoke"
       /\ ctrl.callee.t = "fn"
       /\ envs' = Append(envs, [values |-> defineParams(EmptyMap,
                                               funs[ctrl.callee.n].declaration.params,
                                               ctrl.args),
                                enclosing |-> funs[ctrl.callee.n].closure])
       /\ executeBlockCall(Push([f |-> "call", fn |-> ctrl.callee.n]),
                           funs[ctrl.callee.n].declaration.body, Len(envs) + 1)
       /\ UNCHANGED <<driver, output, locals, funs, classes, insts>>
    \/ /\ pc = "running"
       /\ ctrl.c \in {"done", "throw"}
       /\ Top.f = "call"
       /\ ctrl' = Outcome(callResult(envs, funs[Top.fn], ctrl))
       /\ kont' = Pop
       /\ UNCHANGED <<driver, output, locals, environment, heap>>

LoxClass_call ==
    \/ /\ pc = "running"
       /\ ctrl.c = "invoke"
       /\ ctrl.callee.t = "class"
       /\ insts' = Append(insts, [klass |-> ctrl.callee.n, fields |-> EmptyMap])
       /\ LET initializer == findMethod(classes, ctrl.callee.n, "init", FALSE)
              b == bind(envs, funs, initializer, InstV(Len(insts) + 1))
          IN  IF initializer # 0
              THEN /\ envs' = b.E
                   /\ funs' = b.F
                   /\ ctrl' = Invoke(FunV(Len(b.F)), ctrl.args)
                   /\ kont' = Push([f |-> "loxClassCall", instance |-> InstV(Len(insts) + 1)])
              ELSE /\ ctrl' = Val(InstV(Len(insts) + 1))
                   /\ UNCHANGED <<envs, funs, kont>>
       /\ UNCHANGED <<driver, output, locals, environment, classes>>
    \/ /\ Returned("loxClassCall")
       /\ ctrl' = Val(Top.instance)
       /\ kont' = Pop
       /\ UNCHANGED <<driver, output, locals, environment, heap>>

(* The native clock: seconds since the epoch, some number.                 *)
ClockReadings == {0, 1}

clock ==
    /\ pc = "running"
    /\ ctrl.c = "invoke"
    /\ ctrl.callee.t = "native"
    /\ \E t \in ClockReadings : ctrl' = Val(Num(t))
    /\ UNCHANGED <<driver, output, locals, environment, heap, kont>>

(* An exception leaves a visitor method that has no try statement.         *)
CatchingFrames == {"block", "whileBody", "call", "interpret"}

propagate ==
    /\ pc = "running"
    /\ ctrl.c = "throw"
    /\ Top.f \notin CatchingFrames
    /\ kont' = Pop
    /\ UNCHANGED <<driver, output, locals, environment, heap, ctrl>>

-----------------------------------------------------------------------------
(* Source texts.  Scanner and Parser are not modelled: a source text is    *)
(* given by the messages the scanner and parser report for it and the      *)
(* statements the parser returns.  The numbers in variable-bearing         *)
(* expressions are node identities.                                        *)

Source(syntaxErrors, statements) ==
    [syntaxErrors |-> syntaxErrors, statements |-> statements]

N(i) == Literal(Num(i))
S(x) == Literal(Str(x))
Method(name, params, body) == FunctionStmt(name, params, body)

(* for (var i = 0; i < 3; i = i + 1) { if (i == 1) continue; print i; }    *)
ForContinue ==
    Source(<<>>, <<
        forStatement(VarStmt("i", N(0)),
                     Binary(Variable(101, "i"), "<", N(3)),
                     Assign(102, "i", Binary(Variable(103, "i"), "+", N(1))),
                     BlockStmt(<<IfStmt(Binary(Variable(104, "i"), "==", N(1)),
                                        ContinueStmt, None),
                                 PrintStmt(Variable(105, "i"))>>))>>)

(* for (var i = 0; i < 2; i = i + 1) print i;                              *)
ForPlain ==
    Source(<<>>, <<
        forStatement(VarStmt("i", N(0)),
                     Binary(Variable(201, "i"), "<", N(2)),
                     Assign(202, "i", Binary(Variable(203, "i"), "+", N(1))),
                     PrintStmt(Variable(204, "i")))>>)

(* var n = 0;                                                              *)
(* while (true) { n = n + 1; if (n == 1) continue; if (n == 3) break;      *)
(*                print n; }                                               *)
(* fun h() { while (true) { return 1; } }  print h();                      *)
WhileBreak ==
    Source(<<>>, <<
        VarStmt("n", N(0)),
        WhileStmt(Literal(Bool(TRUE)),
                  BlockStmt(<<ExpressionStmt(Assign(301, "n",
                                  Binary(Variable(302, "n"), "+", N(1)))),
                              IfStmt(Binary(Variable(303, "n"), "==", N(1)),
                                     ContinueStmt, None),
                              IfStmt(Binary(Variable(304, "n"), "==", N(3)),
                                     BreakStmt, None),
                              PrintStmt(Variable(305, "n"))>>),
                  FALSE, FALSE),
        FunctionStmt("h", <<>>, <<
            WhileStmt(Literal(Bool(TRUE)), BlockStmt(<<ReturnStmt(N(1))>>), FALSE, FALSE)>>),
        PrintStmt(Call(Variable(306, "h"), <<>>))>>)

(* fun f() { return 1 / 0; }                                               *)
(* fun g() { f(); print "in g"; }                                          *)
(* g(); print "after";                                                     *)
ErrorInCall ==
    Source(<<>>, <<
        FunctionStmt("f", <<>>, <<ReturnStmt(Binary(N(1), "/", N(0)))>>),
        FunctionStmt("g", <<>>, <<ExpressionStmt(Call(Variable(401, "f"), <<>>)),
                                  PrintStmt(S("in g"))>>),
        ExpressionStmt(Call(Variable(402, "g"), <<>>)),
        PrintStmt(S("after"))>>)

(* fun make() { var i = 0; fun next() { i = i + 1; return i; }             *)
(*              return next; }                                             *)
(* var a = make(); var b = make();                                         *)
(* print a(); print a(); print b(); print a();                             *)
Counter ==
    Source(<<>>, <<
        FunctionStmt("make", <<>>, <<
            VarStmt("i", N(0)),
            FunctionStmt("next", <<>>, <<
                ExpressionStmt(Assign(501, "i", Binary(Variable(502, "i"), "+", N(1)))),
                ReturnStmt(Variable(503, "i"))>>),
            ReturnStmt(Variable(504, "next"))>>),
        VarStmt("a", Call(Variable(505, "make"), <<>>)),
        VarStmt("b", Call(Variable(506, "make"), <<>>)),
        PrintStmt(Call(Variable(507, "a"), <<>>)),
        PrintStmt(Call(Variable(508, "a"), <<>>)),
        PrintStmt(Call(Variable(509, "b"), <<>>)),
        PrintStmt(Call(Variable(510, "a"), <<>>))>>)

(* var setter;                                                             *)
(* fun pair() { var v = 0; fun set(x) { v = x; } fun get() { return v; }   *)
(*              setter = set; return get; }                                *)
(* var getter = pair(); print getter(); setter(5); print getter();         *)
SharedFrame ==
    Source(<<>>, <<
        VarStmt("setter", None),
        FunctionStmt("pair", <<>>, <<
            VarStmt("v", N(0)),
            FunctionStmt("set", <<"x">>, <<
                ExpressionStmt(Assign(601, "v", Variable(602, "x")))>>),
            FunctionStmt("get", <<>>, <<ReturnStmt(Variable(603, "v"))>>),
            ExpressionStmt(Assign(604, "setter", Variable(605, "set"))),
            ReturnStmt(Variable(606, "get"))>>),
        VarStmt("getter", Call(Variable(607, "pair"), <<>>)),
        PrintStmt(Call(Variable(608, "getter"), <<>>)),
        ExpressionStmt(Call(Variable(609, "setter"), <<N(5)>>)),
        PrintStmt(Call(Variable(610, "getter"), <<>>))>>)

(* class A { init(n) { this.n = n; } who() { return this.n; } }            *)
(* class H { run(f) { return f(); } }                                      *)
(* var a = A(1); var b = A(2); var m = a.who; b.w = m;                     *)
(* print b.w(); print H().run(m); print b.who(); print a.who();            *)
Binding ==
    Source(<<>>, <<
        ClassStmt("A", None,
                  <<Method("init", <<"n">>, <<
                        ExpressionStmt(Set(This(701), "n", Variable(702, "n")))>>),
                    Method("who", <<>>, <<ReturnStmt(Get(This(703), "n"))>>)>>,
                  <<>>, <<>>, <<>>),
        ClassStmt("H", None,
                  <<Method("run", <<"f">>, <<
                        ReturnStmt(Call(Variable(704, "f"), <<>>))>>)>>,
                  <<>>, <<>>, <<>>),
        VarStmt("a", Call(Variable(705, "A"), <<N(1)>>)),
        VarStmt("b", Call(Variable(706, "A"), <<N(2)>>)),
        VarStmt("m", Get(Variable(707, "a"), "who")),
        ExpressionStmt(Set(Variable(708, "b"), "w", Variable(709, "m"))),
        PrintStmt(Call(Get(Variable(710, "b"), "w"), <<>>)),
        PrintStmt(Call(Get(Call(Variable(711, "H"), <<>>), "run"), <<Variable(712, "m")>>)),
        PrintStmt(Call(Get(Variable(713, "b"), "who"), <<>>)),
        PrintStmt(Call(Get(Variable(714, "a"), "who"), <<>>))>>)

(* class A { init() { this.x = 1; } }                                      *)
(* class B { init() { return; } }                                          *)
(* var a = A(); var b = B();                                               *)
(* print a.init() == a; print b.init() == b; print a == b; print a.x;      *)
Initializer ==
    Source(<<>>, <<
        ClassStmt("A", None,
                  <<Method("init", <<>>, <<ExpressionStmt(Set(This(801), "x", N(1)))>>)>>,
                  <<>>, <<>>, <<>>),
        ClassStmt("B", None,
                  <<Method("init", <<>>, <<ReturnStmt(None)>>)>>,
                  <<>>, <<>>, <<>>),
        VarStmt("a", Call(Variable(802, "A"), <<>>)),
        VarStmt("b", Call(Variable(803, "B"), <<>>)),
        PrintStmt(Binary(Call(Get(Variable(804, "a"), "init"), <<>>), "==",
                         Variable(805, "a"))),
        PrintStmt(Binary(Call(Get(Variable(806, "b"), "init"), <<>>), "==",
                         Variable(807, "b"))),
        PrintStmt(Binary(Variable(808, "a"), "==", Variable(809, "b"))),
        PrintStmt(Get(Variable(810, "a"), "x"))>>)

(* class A { m() { return "A:" + this.tag; } }                             *)
(* class B < A { m() { return "B"; } test() { return super.m(); } }        *)
(* class C < B { m() { return "C"; } }                                     *)
(* var c = C(); c.tag = "c"; print c.test();                               *)
(* var b = B(); b.tag = "b"; print b.test(); print c.m();                  *)
SuperDispatch ==
    Source(<<>>, <<
        ClassStmt("A", None,
                  <<Method("m", <<>>, <<
                        ReturnStmt(Binary(S("A:"), "+", Get(This(901), "tag")))>>)>>,
                  <<>>, <<>>, <<>>),
        ClassStmt("B", Variable(902, "A"),
                  <<Method("m", <<>>, <<ReturnStmt(S("B"))>>),
                    Method("test", <<>>, <<
                        ReturnStmt(Call(Super(903, "m"), <<>>))>>)>>,
                  <<>>, <<>>, <<>>),
        ClassStmt("C", Variable(904, "B"),
                  <<Method("m", <<>>, <<ReturnStmt(S("C"))>>)>>,
                  <<>>, <<>>, <<>>),
        VarStmt("c", Call(Variable(905, "C"), <<>>)),
        ExpressionStmt(Set(Variable(906, "c"), "tag", S("c"))),
        PrintStmt(Call(Get(Variable(907, "c"), "test"), <<>>)),
        VarStmt("b", Call(Variable(908, "B"), <<>>)),
        ExpressionStmt(Set(Variable(909, "b"), "tag", S("b"))),
        PrintStmt(Call(Get(Variable(910, "b"), "test"), <<>>)),
        PrintStmt(Call(Get(Variable(911, "c"), "m"), <<>>))>>)

(* class Base { init(x, y) { this.x = x; this.y = y; } }                   *)
(* class D < Base {                                                        *)
(*   init(x, y) { super(x, y); }                                           *)
(*   get sum { return this.x + this.y; }                                   *)
(*   static init() { this.count = 0; }                                     *)
(*   static make() { return D(1, 2); }                                     *)
(*   static get zero { return this.count; }                                *)
(* }                                                                       *)
(* class E < Base { init() { super(5, 6); super.init(3, 4); } }            *)
(* print D.make().sum; print D.zero; print E().x;                          *)
Members ==
    Source(<<>>, <<
        ClassStmt("Base", None,
                  <<Method("init", <<"x", "y">>, <<
                        ExpressionStmt(Set(This(1001), "x", Variable(1002, "x"))),
                        ExpressionStmt(Set(This(1003), "y", Variable(1004, "y")))>>)>>,
                  <<>>, <<>>, <<>>),
        ClassStmt("D", Variable(1005, "Base"),
                  <<Method("init", <<"x", "y">>, <<
                        ExpressionStmt(SuperCall(1006, <<Variable(1007, "x"),
                                                         Variable(1008, "y")>>))>>)>>,
                  <<Method("sum", <<>>, <<
                        ReturnStmt(Binary(Get(This(1009), "x"), "+",
                                          Get(This(1010), "y")))>>)>>,
                  <<Method("init", <<>>, <<
                        ExpressionStmt(Set(This(1011), "count", N(0)))>>),
                    Method("make", <<>>, <<
                        ReturnStmt(Call(Variable(1012, "D"), <<N(1), N(2)>>))>>)>>,
                  <<Method("zero", <<>>, <<ReturnStmt(Get(This(1013), "count"))>>)>>),
        ClassStmt("E", Variable(1014, "Base"),
                  <<Method("init", <<>>, <<
                        ExpressionStmt(SuperCall(1015, <<N(5), N(6)>>)),
                        ExpressionStmt(Call(Super(1016, "init"), <<N(3), N(4)>>))>>)>>,
                  <<>>, <<>>, <<>>),
        PrintStmt(Get(Call(Get(Variable(1017, "D"), "make"), <<>>), "sum")),
        PrintStmt(Get(Variable(1018, "D"), "zero")),
        PrintStmt(Get(Call(Variable(1019, "E"), <<>>), "x"))>>)

(* var f = fun (a) { return a; };  print f(1);                             *)
(* var u; print u; { var k = 1; print k; }                                 *)
(* if (false) print 1; else print 2;  if (nil) print 3;                    *)
(* print clock() >= 0;  print f;                                           *)
Misc ==
    Source(<<>>, <<
        VarStmt("f", FunctionExpr(<<"a">>, <<ReturnStmt(Variable(1101, "a"))>>)),
        PrintStmt(Call(Variable(1102, "f"), <<N(1)>>)),
        VarStmt("u", None),
        PrintStmt(Variable(1103, "u")),
        BlockStmt(<<VarStmt("k", N(1)), PrintStmt(Variable(1104, "k"))>>),
        IfStmt(Literal(Bool(FALSE)), PrintStmt(N(1)), PrintStmt(N(2))),
        IfStmt(Literal(Nil), PrintStmt(N(3)), None),
        PrintStmt(Binary(Call(Variable(1105, "clock"), <<>>), ">=", N(0))),
        PrintStmt(Variable(1106, "f"))>>)

(* var x = 1; class Z < x {}                                               *)
BadSuperclass ==
    Source(<<>>, <<
        VarStmt("x", N(1)),
        ClassStmt("Z", Variable(1201, "x"), <<>>, <<>>, <<>>, <<>>)>>)

(* var x = 1; print x.y;                                                   *)
BadGet ==
    Source(<<>>, <<
        VarStmt("x", N(1)),
        PrintStmt(Get(Variable(1301, "x"), "y"))>>)

(* var x = 1; x.y = 2;                                                     *)
BadSet ==
    Source(<<>>, <<
        VarStmt("x", N(1)),
        ExpressionStmt(Set(Variable(1401, "x"), "y", N(2)))>>)

(* var x = 1; x();                                                         *)
BadCall ==
    Source(<<>>, <<
        VarStmt("x", N(1)),
        ExpressionStmt(Call(Variable(1501, "x"), <<>>))>>)

(* print 1; print ;        (the parser reports the second statement)       *)
SyntaxError ==
    Source(<<"Expect expression.">>, <<PrintStmt(N(1))>>)

(* g = 8; print g; { var a = a; }                                          *)
ResolveError ==
    Source(<<>>, <<
        ExpressionStmt(Assign(1601, "g", N(8))),
        PrintStmt(Variable(1602, "g")),
        BlockStmt(<<VarStmt("a", Variable(1603, "a"))>>)>>)

(* var g = 7;                                                              *)
DefineG == Source(<<>>, <<VarStmt("g", N(7))>>)

(* print g;                                                                *)
PrintG == Source(<<>>, <<PrintStmt(Variable(1701, "g"))>>)

(* print 1 - nil;                                                          *)
RuntimeFault == Source(<<>>, <<PrintStmt(Binary(N(1), "-", Literal(Nil)))>>)

(* The empty line.                                                         *)
Empty == Source(<<>>, <<>>)

(* var a = a;                                                              *)
SelfInitTop == Source(<<>>, <<VarStmt("a", Variable(1801, "a"))>>)

(* { var a = a; }                                                          *)
SelfInitBlock ==
    Source(<<>>, <<BlockStmt(<<VarStmt("a", Variable(1901, "a"))>>)>>)

(* class A {}  class B < A { init() { <body> } }                           *)
DerivedInit(id, body) ==
    Source(<<>>, <<
        ClassStmt("A", None, <<>>, <<>>, <<>>, <<>>),
        ClassStmt("B", Variable(id, "A"), <<Method("init", <<>>, body)>>,
                  <<>>, <<>>, <<>>)>>)

(* ... init() { super(); super.m; }                                        *)
SuperOnce ==
    DerivedInit(2001, <<ExpressionStmt(SuperCall(2002, <<>>)),
                        ExpressionStmt(Super(2003, "m"))>>)

(* ... init() { }                                                          *)
SuperMissing == DerivedInit(2101, <<>>)

(* ... init() { super(); super(); }                                        *)
SuperTwice ==
    DerivedInit(2201, <<ExpressionStmt(SuperCall(2202, <<>>)),
                        ExpressionStmt(SuperCall(2203, <<>>))>>)

(* ... init() { super.m; super(); }                                        *)
SuperEarly ==
    DerivedInit(2301, <<ExpressionStmt(Super(2302, "m")),
                        ExpressionStmt(SuperCall(2303, <<>>))>>)

(* ... init() { super(); fun f() {} f(); }                                 *)
SuperNested ==
    DerivedInit(2401, <<ExpressionStmt(SuperCall(2402, <<>>)),
                        FunctionStmt("f", <<>>, <<>>),
                        ExpressionStmt(Call(Variable(2403, "f"), <<>>))>>)

(* ... init() { super(); print fun () {}; super.m; }                       *)
SuperNestedThenProperty ==
    DerivedInit(2501, <<ExpressionStmt(SuperCall(2502, <<>>)),
                        PrintStmt(FunctionExpr(<<>>, <<>>)),
                        ExpressionStmt(Super(2503, "m"))>>)

(* class P { init(a, b) { this.s = a + b; } }                              *)
(* class Q < P {}                                                          *)
(* class R < Q { init(c) { super(c, c); } }                                *)
(* var q = Q(1, 2); print q.s; print R(4).s; print Q(1, 2) == q; Q(1);     *)
ClassCall ==
    Source(<<>>, <<
        ClassStmt("P", None,
                  <<Method("init", <<"a", "b">>, <<
                        ExpressionStmt(Set(This(2601), "s",
                            Binary(Variable(2602, "a"), "+", Variable(2603, "b"))))>>)>>,
                  <<>>, <<>>, <<>>),
        ClassStmt("Q", Variable(2604, "P"), <<>>, <<>>, <<>>, <<>>),
        ClassStmt("R", Variable(2605, "Q"),
                  <<Method("init", <<"c">>, <<
                        ExpressionStmt(SuperCall(2606, <<Variable(2607, "c"),
                                                         Variable(2608, "c")>>))>>)>>,
                  <<>>, <<>>, <<>>),
        VarStmt("q", Call(Variable(2609, "Q"), <<N(1), N(2)>>)),
        PrintStmt(Get(Variable(2610, "q"), "s")),
        PrintStmt(Get(Call(Variable(2611, "R"), <<N(4)>>), "s")),
        PrintStmt(Binary(Call(Variable(2612, "Q"), <<N(1), N(2)>>), "==",
                         Variable(2613, "q"))),
        ExpressionStmt(Call(Variable(2614, "Q"), <<N(1)>>))>>)

(* class Z {}  print Z();  Z(1);                                           *)
ClassNoInit ==
    Source(<<>>, <<
        ClassStmt("Z", None, <<>>, <<>>, <<>>, <<>>),
        PrintStmt(Call(Variable(2701, "Z"), <<>>)),
        ExpressionStmt(Call(Variable(2702, "Z"), <<N(1)>>))>>)

(* class A { m() { return "method"; } get g { return this.tag; }           *)
(*           get p { return "getter A"; } }                                *)
(* class B < A { p() { return "method B"; } }                              *)
(* var b = B(); b.tag = "t";                                               *)
(* print b.g; print b.m(); print b.p; b.g = "field"; print b.g;            *)
(* print b.zzz;                                                            *)
PropertyOrder ==
    Source(<<>>, <<
        ClassStmt("A", None,
                  <<Method("m", <<>>, <<ReturnStmt(S("method"))>>)>>,
                  <<Method("g", <<>>, <<ReturnStmt(Get(This(2801), "tag"))>>),
                    Method("p", <<>>, <<ReturnStmt(S("getter A"))>>)>>,
                  <<>>, <<>>),
        ClassStmt("B", Variable(2802, "A"),
                  <<Method("p", <<>>, <<ReturnStmt(S("method B"))>>)>>,
                  <<>>, <<>>, <<>>),
        VarStmt("b", Call(Variable(2803, "B"), <<>>)),
        ExpressionStmt(Set(Variable(2804, "b"), "tag", S("t"))),
        PrintStmt(Get(Variable(2805, "b"), "g")),
        PrintStmt(Call(Get(Variable(2806, "b"), "m"), <<>>)),
        PrintStmt(Get(Variable(2807, "b"), "p")),
        ExpressionStmt(Set(Variable(2808, "b"), "g", S("field"))),
        PrintStmt(Get(Variable(2809, "b"), "g")),
        PrintStmt(Get(Variable(2810, "b"), "zzz"))>>)

(* class C { get x { this.n = 1; return 2; } }                             *)
(* var c = C(); print c.x; print c.n;                                      *)
GetterWrites ==
    Source(<<>>, <<
        ClassStmt("C", None, <<>>,
                  <<Method("x", <<>>, <<
                        ExpressionStmt(Set(This(2901), "n", N(1))),
                        ReturnStmt(N(2))>>)>>,
                  <<>>, <<>>),
        VarStmt("c", Call(Variable(2902, "C"), <<>>)),
        PrintStmt(Get(Variable(2903, "c"), "x")),
        PrintStmt(Get(Variable(2904, "c"), "n"))>>)

(* fun show(x) { print x; return x; }                                      *)
(* fun two(a, b) { print a + b; }                                          *)
(* two(show(1), show(2));  two(show(3));                                   *)
CallOrder ==
    Source(<<>>, <<
        FunctionStmt("show", <<"x">>, <<PrintStmt(Variable(3001, "x")),
                                        ReturnStmt(Variable(3002, "x"))>>),
        FunctionStmt("two", <<"a", "b">>, <<
            PrintStmt(Binary(Variable(3003, "a"), "+", Variable(3004, "b")))>>),
        ExpressionStmt(Call(Variable(3005, "two"),
                            <<Call(Variable(3006, "show"), <<N(1)>>),
                              Call(Variable(3007, "show"), <<N(2)>>)>>)),
        ExpressionStmt(Call(Variable(3008, "two"),
                            <<Call(Variable(3009, "show"), <<N(3)>>)>>))>>)

(* class A {}  A()();                                                      *)
CallInstance ==
    Source(<<>>, <<
        ClassStmt("A", None, <<>>, <<>>, <<>>, <<>>),
        ExpressionStmt(Call(Call(Variable(3101, "A"), <<>>), <<>>))>>)

(* fun find() { var i = 0;                                                 *)
(*              while (true) { i = i + 1; { if (i == 2) { return i; } } }  *)
(*              print "unreached"; }                                       *)
(* print find();                                                           *)
(* var o = 0;                                                              *)
(* while (o < 2) { o = o + 1; var n = 0;                                   *)
(*                 while (true) { n = n + 1; if (n == 1) continue; break; } *)
(*                 print o; }                                              *)
(* print "end";                                                            *)
NestedSignals ==
    Source(<<>>, <<
        FunctionStmt("find", <<>>, <<
            VarStmt("i", N(0)),
            WhileStmt(Literal(Bool(TRUE)),
                      BlockStmt(<<
                          ExpressionStmt(Assign(3201, "i",
                              Binary(Variable(3202, "i"), "+", N(1)))),
                          BlockStmt(<<
                              IfStmt(Binary(Variable(3203, "i"), "==", N(2)),
                                     BlockStmt(<<ReturnStmt(Variable(3204, "i"))>>),
                                     None)>>)>>),
                      FALSE, FALSE),
            PrintStmt(S("unreached"))>>),
        PrintStmt(Call(Variable(3205, "find"), <<>>)),
        VarStmt("o", N(0)),
        WhileStmt(Binary(Variable(3206, "o"), "<", N(2)),
                  BlockStmt(<<
                      ExpressionStmt(Assign(3207, "o",
                          Binary(Variable(3208, "o"), "+", N(1)))),
                      VarStmt("n", N(0)),
                      WhileStmt(Literal(Bool(TRUE)),
                                BlockStmt(<<
                                    ExpressionStmt(Assign(3209, "n",
                                        Binary(Variable(3210, "n"), "+", N(1)))),
                                    IfStmt(Binary(Variable(3211, "n"), "==", N(1)),
                                           ContinueStmt, None),
                                    BreakStmt>>),
                                FALSE, FALSE),
                      PrintStmt(Variable(3212, "o"))>>),
                  FALSE, FALSE),
        PrintStmt(S("end"))>>)

(* { var a = 1; var b = 2; print a; }  { var c; c = 1; }                   *)
(* fun f(p, q) { fun g() {} class K {} return p; }  var top = 1;           *)
UnusedLocals ==
    Source(<<>>, <<
        BlockStmt(<<VarStmt("a", N(1)), VarStmt("b", N(2)),
                    PrintStmt(Variable(3301, "a"))>>),
        BlockStmt(<<VarStmt("c", None),
                    ExpressionStmt(Assign(3302, "c", N(1)))>>),
        FunctionStmt("f", <<"p", "q">>, <<
            FunctionStmt("g", <<>>, <<>>),
            ClassStmt("K", None, <<>>, <<>>, <<>>, <<>>),
            ReturnStmt(Variable(3303, "p"))>>),
        VarStmt("top", N(1))>>)

(* { var f = fun () { return f; }; }                                       *)
SelfReference ==
    Source(<<>>, <<
        BlockStmt(<<VarStmt("f", FunctionExpr(<<>>, <<
                        ReturnStmt(Variable(3401, "f"))>>))>>)>>)

(* var a = "global";                                                       *)
(* { var a = "outer"; { var a = "inner"; print a; } print a; { print a; } } *)
(* print a;  fun f() { return a; }  print f();                             *)
Shadowing ==
    Source(<<>>, <<
        VarStmt("a", S("global")),
        BlockStmt(<<
            VarStmt("a", S("outer")),
            BlockStmt(<<VarStmt("a", S("inner")), PrintStmt(Variable(3501, "a"))>>),
            PrintStmt(Variable(3502, "a")),
            BlockStmt(<<PrintStmt(Variable(3503, "a"))>>)>>),
        PrintStmt(Variable(3504, "a")),
        FunctionStmt("f", <<>>, <<ReturnStmt(Variable(3505, "a"))>>),
        PrintStmt(Call(Variable(3506, "f"), <<>>))>>)

(* fun f() { return 1; }  f();  if (true) { return; }                      *)
ReturnTop ==
    Source(<<>>, <<
        FunctionStmt("f", <<>>, <<ReturnStmt(N(1))>>),
        ExpressionStmt(Call(Variable(3601, "f"), <<>>)),
        IfStmt(Literal(Bool(TRUE)), BlockStmt(<<ReturnStmt(None)>>), None)>>)

(* class A { init() { return 1; } }                                        *)
ReturnInit ==
    Source(<<>>, <<
        ClassStmt("A", None, <<Method("init", <<>>, <<ReturnStmt(N(1))>>)>>,
                  <<>>, <<>>, <<>>)>>)

(* class A { static init() { return 1; } }                                 *)
ReturnStaticInit ==
    Source(<<>>, <<
        ClassStmt("A", None, <<>>, <<>>,
                  <<Method("init", <<>>, <<ReturnStmt(N(1))>>)>>, <<>>)>>)

(* class A { init() { fun h() { return 3; } h(); return; }                 *)
(*           m() { return 1; }  get g { return 2; }                        *)
(*           static init() { print fun () { return 4; }; return; } }       *)
(* fun f() { return fun () { return 5; }; }                                *)
ReturnAccepted ==
    Source(<<>>, <<
        ClassStmt("A", None,
                  <<Method("init", <<>>, <<
                        FunctionStmt("h", <<>>, <<ReturnStmt(N(3))>>),
                        ExpressionStmt(Call(Variable(3701, "h"), <<>>)),
                        ReturnStmt(None)>>),
                    Method("m", <<>>, <<ReturnStmt(N(1))>>)>>,
                  <<Method("g", <<>>, <<ReturnStmt(N(2))>>)>>,
                  <<Method("init", <<>>, <<
                        PrintStmt(FunctionExpr(<<>>, <<ReturnStmt(N(4))>>)),
                        ReturnStmt(None)>>)>>,
                  <<>>),
        FunctionStmt("f", <<>>, <<
            ReturnStmt(FunctionExpr(<<>>, <<ReturnStmt(N(5))>>))>>)>>)

(* class A { init() { fun h() { return 3; } h(); return 6; } }             *)
ReturnAfterNested ==
    Source(<<>>, <<
        ClassStmt("A", None,
                  <<Method("init", <<>>, <<
                        FunctionStmt("h", <<>>, <<ReturnStmt(N(3))>>),
                        ExpressionStmt(Call(Variable(3801, "h"), <<>>)),
                        ReturnStmt(N(6))>>)>>,
                  <<>>, <<>>, <<>>)>>)

(* break;  continue;                                                       *)
LoopNone ==
    Source(<<>>, <<BreakStmt, ContinueStmt>>)

(* while (true) { fun f() { break; } f(); break; }                         *)
LoopFunctionBreak ==
    Source(<<>>, <<
        WhileStmt(Literal(Bool(TRUE)),
                  BlockStmt(<<
                      FunctionStmt("f", <<>>, <<BreakStmt>>),
                      ExpressionStmt(Call(Variable(3901, "f"), <<>>)),
                      BreakStmt>>),
                  FALSE, FALSE)>>)

(* while (true) { print fun () { continue; }; break; }                     *)
LoopFunctionContinue ==
    Source(<<>>, <<
        WhileStmt(Literal(Bool(TRUE)),
                  BlockStmt(<<
                      PrintStmt(FunctionExpr(<<>>, <<ContinueStmt>>)),
                      BreakStmt>>),
                  FALSE, FALSE)>>)

(* while (true) { break; }  continue;                                      *)
LoopAfter ==
    Source(<<>>, <<
        WhileStmt(Literal(Bool(TRUE)), BlockStmt(<<BreakStmt>>), FALSE, FALSE),
        ContinueStmt>>)

(* while (true) {                                                          *)
(*   while (false) { continue; }                                           *)
(*   fun g() { while (true) { break; } }                                   *)
(*   g();  break; }                                                        *)
LoopAccepted ==
    Source(<<>>, <<
        WhileStmt(Literal(Bool(TRUE)),
                  BlockStmt(<<
                      WhileStmt(Literal(Bool(FALSE)), BlockStmt(<<ContinueStmt>>),
                                FALSE, FALSE),
                      FunctionStmt("g", <<>>, <<
                          WhileStmt(Literal(Bool(TRUE)), BlockStmt(<<BreakStmt>>),
                                    FALSE, FALSE)>>),
                      ExpressionStmt(Call(Variable(4001, "g"), <<>>)),
                      BreakStmt>>),
                  FALSE, FALSE)>>)

(* class A { m() { print "old"; } }                                        *)
(* class B < A {}                                                          *)
(* class A < B { n() { print "new"; } }                                    *)
(* A().m();  A().n();  A = 1;  B().m();                                    *)
ClassRedeclared ==
    Source(<<>>, <<
        ClassStmt("A", None, <<Method("m", <<>>, <<PrintStmt(S("old"))>>)>>,
                  <<>>, <<>>, <<>>),
        ClassStmt("B", Variable(4101, "A"), <<>>, <<>>, <<>>, <<>>),
        ClassStmt("A", Variable(4102, "B"),
                  <<Method("n", <<>>, <<PrintStmt(S("new"))>>)>>,
                  <<>>, <<>>, <<>>),
        ExpressionStmt(Call(Get(Call(Variable(4103, "A"), <<>>), "m"), <<>>)),
        ExpressionStmt(Call(Get(Call(Variable(4104, "A"), <<>>), "n"), <<>>)),
        ExpressionStmt(Assign(4105, "A", N(1))),
        ExpressionStmt(Call(Get(Call(Variable(4106, "B"), <<>>), "m"), <<>>))>>)

(* class A { n() { return "A.n"; }  x() { return "A.x"; }                  *)
(*           get g { return "A.g"; }                                       *)
(*           static n() { return "static A.n"; }                           *)
(*           static get sg { return "A.sg"; } }                            *)
(* class B < A { n() { return "B.n"; }  static s() { return "B.s"; } }     *)
(* print B().n(); print B().x(); print B().g;                              *)
(* print A.n(); print B.n(); print B.sg; print B.s();                      *)
(* B.x = "field"; print B.x;  print B.g;                                   *)
MemberTables ==
    Source(<<>>, <<
        ClassStmt("A", None,
                  <<Method("n", <<>>, <<ReturnStmt(S("A.n"))>>),
                    Method("x", <<>>, <<ReturnStmt(S("A.x"))>>)>>,
                  <<Method("g", <<>>, <<ReturnStmt(S("A.g"))>>)>>,
                  <<Method("n", <<>>, <<ReturnStmt(S("static A.n"))>>)>>,
                  <<Method("sg", <<>>, <<ReturnStmt(S("A.sg"))>>)>>),
        ClassStmt("B", Variable(4201, "A"),
                  <<Method("n", <<>>, <<ReturnStmt(S("B.n"))>>)>>,
                  <<>>,
                  <<Method("s", <<>>, <<ReturnStmt(S("B.s"))>>)>>,
                  <<>>),
        PrintStmt(Call(Get(Call(Variable(4202, "B"), <<>>), "n"), <<>>)),
        PrintStmt(Call(Get(Call(Variable(4203, "B"), <<>>), "x"), <<>>)),
        PrintStmt(Get(Call(Variable(4204, "B"), <<>>), "g")),
        PrintStmt(Call(Get(Variable(4205, "A"), "n"), <<>>)),
        PrintStmt(Call(Get(Variable(4206, "B"), "n"), <<>>)),
        PrintStmt(Get(Variable(4207, "B"), "sg")),
        PrintStmt(Call(Get(Variable(4208, "B"), "s"), <<>>)),
        ExpressionStmt(Set(Variable(4209, "B"), "x", S("field"))),
        PrintStmt(Get(Variable(4210, "B"), "x")),
        PrintStmt(Get(Variable(4211, "B"), "g"))>>)

(* class A { x() { return "A.x"; } }  class B < A {}  print B.x;           *)
InstanceMethodOnClass ==
    Source(<<>>, <<
        ClassStmt("A", None, <<Method("x", <<>>, <<ReturnStmt(S("A.x"))>>)>>,
                  <<>>, <<>>, <<>>),
        ClassStmt("B", Variable(4301, "A"), <<>>, <<>>, <<>>, <<>>),
        PrintStmt(Get(Variable(4302, "B"), "x"))>>)

(* class A { static s() { return "A.s"; } }  class B < A {}  print B().s;  *)
StaticMethodOnInstance ==
    Source(<<>>, <<
        ClassStmt("A", None, <<>>, <<>>,
                  <<Method("s", <<>>, <<ReturnStmt(S("A.s"))>>)>>, <<>>),
        ClassStmt("B", Variable(4401, "A"), <<>>, <<>>, <<>>, <<>>),
        PrintStmt(Get(Call(Variable(4402, "B"), <<>>), "s"))>>)

(* class A { static get sg { return "A.sg"; } }  print A().sg;             *)
StaticGetterOnInstance ==
    Source(<<>>, <<
        ClassStmt("A", None, <<>>, <<>>, <<>>,
                  <<Method("sg", <<>>, <<ReturnStmt(S("A.sg"))>>)>>),
        PrintStmt(Get(Call(Variable(4501, "A"), <<>>), "sg"))>>)

(* fun v() { print "evaluated"; return 2; }                                *)
(* var f = "text";  f.x = v();                                             *)
SetOnString ==
    Source(<<>>, <<
        FunctionStmt("v", <<>>, <<PrintStmt(S("evaluated")), ReturnStmt(N(2))>>),
        VarStmt("f", S("text")),
        ExpressionStmt(Set(Variable(4601, "f"), "x", Call(Variable(4602, "v"), <<>>)))>>)

(* class P {}  var a = P();  var b = P();                                  *)
(* a.x = 1;  a.y = 2;  b.x = 9;  print a.x = 3;                            *)
(* print a.x;  print a.y;  print b.x;  P.z = 4;  print P.z;                *)
SetFields ==
    Source(<<>>, <<
        ClassStmt("P", None, <<>>, <<>>, <<>>, <<>>),
        VarStmt("a", Call(Variable(4701, "P"), <<>>)),
        VarStmt("b", Call(Variable(4702, "P"), <<>>)),
        ExpressionStmt(Set(Variable(4703, "a"), "x", N(1))),
        ExpressionStmt(Set(Variable(4704, "a"), "y", N(2))),
        ExpressionStmt(Set(Variable(4705, "b"), "x", N(9))),
        PrintStmt(Set(Variable(4706, "a"), "x", N(3))),
        PrintStmt(Get(Variable(4707, "a"), "x")),
        PrintStmt(Get(Variable(4708, "a"), "y")),
        PrintStmt(Get(Variable(4709, "b"), "x")),
        ExpressionStmt(Set(Variable(4710, "P"), "z", N(4))),
        PrintStmt(Get(Variable(4711, "P"), "z"))>>)

(* class A { static init() { this.n = 1; }  init() { this.m = 2; }         *)
(*           static get sg { return 3; }  other() { return 4; } }          *)
(* print A.init();  print A().init();  print A().other();                  *)
StaticInitCall ==
    Source(<<>>, <<
        ClassStmt("A", None,
                  <<Method("init", <<>>, <<ExpressionStmt(Set(This(4801), "m", N(2)))>>),
                    Method("other", <<>>, <<ReturnStmt(N(4))>>)>>,
                  <<>>,
                  <<Method("init", <<>>, <<ExpressionStmt(Set(This(4802), "n", N(1)))>>)>>,
                  <<Method("sg", <<>>, <<ReturnStmt(N(3))>>)>>),
        PrintStmt(Call(Get(Variable(4803, "A"), "init"), <<>>)),
        PrintStmt(Call(Get(Call(Variable(4804, "A"), <<>>), "init"), <<>>)),
        PrintStmt(Call(Get(Call(Variable(4805, "A"), <<>>), "other"), <<>>))>>)

(* class Person { init(name, age) { this.name = name; this.age = age; } }  *)
(* class Teacher < Person {                                                *)
(*   init(name, age, subject) { super(name, age); this.subject = subject; } } *)
(* class HeadTeacher < Teacher {                                           *)
(*   init(name, age, subject, school) {                                    *)
(*     super(name, age, subject); this.school = school; } }                *)
(* var h = HeadTeacher("John", 70, "Science", "St Nins");                  *)
(* print h; print h.name; print h.age; print h.subject; print h.school;    *)
SuperChain ==
    Source(<<>>, <<
        ClassStmt("Person", None,
                  <<Method("init", <<"name", "age">>, <<
                        ExpressionStmt(Set(This(4901), "name", Variable(4902, "name"))),
                        ExpressionStmt(Set(This(4903), "age", Variable(4904, "age")))>>)>>,
                  <<>>, <<>>, <<>>),
        ClassStmt("Teacher", Variable(4905, "Person"),
                  <<Method("init", <<"name", "age", "subject">>, <<
                        ExpressionStmt(SuperCall(4906, <<Variable(4907, "name"),
                                                         Variable(4908, "age")>>)),
                        ExpressionStmt(Set(This(4909), "subject",
                                           Variable(4910, "subject")))>>)>>,
                  <<>>, <<>>, <<>>),
        ClassStmt("HeadTeacher", Variable(4911, "Teacher"),
                  <<Method("init", <<"name", "age", "subject", "school">>, <<
                        ExpressionStmt(SuperCall(4912, <<Variable(4913, "name"),
                                                         Variable(4914, "age"),
                                                         Variable(4915, "subject")>>)),
                        ExpressionStmt(Set(This(4916), "school",
                                           Variable(4917, "school")))>>)>>,
                  <<>>, <<>>, <<>>),
        VarStmt("h", Call(Variable(4918, "HeadTeacher"),
                          <<S("John"), N(70), S("Science"), S("St Nins")>>)),
        PrintStmt(Variable(4919, "h")),
        PrintStmt(Get(Variable(4920, "h"), "name")),
        PrintStmt(Get(Variable(4921, "h"), "age")),
        PrintStmt(Get(Variable(4922, "h"), "subject")),
        PrintStmt(Get(Variable(4923, "h"), "school"))>>)

(* fun say(x) { print x; return x; }                                       *)
(* class A { init(p, q) { this.p = p; this.q = q; } }                      *)
(* class B < A { init() { super(say(1), say(2)); } }                       *)
(* class C < A { init() { super(say(3)); print "after"; } }                *)
(* class D {}                                                              *)
(* class E < D { init() { super(); this.e = 5; } }                         *)
(* var b = B(); print b.p; print b.q;  C();  print E().e;                  *)
SuperArgs ==
    Source(<<>>, <<
        FunctionStmt("say", <<"x">>, <<PrintStmt(Variable(5001, "x")),
                                       ReturnStmt(Variable(5002, "x"))>>),
        ClassStmt("A", None,
                  <<Method("init", <<"p", "q">>, <<
                        ExpressionStmt(Set(This(5003), "p", Variable(5004, "p"))),
                        ExpressionStmt(Set(This(5005), "q", Variable(5006, "q")))>>)>>,
                  <<>>, <<>>, <<>>),
        ClassStmt("B", Variable(5007, "A"),
                  <<Method("init", <<>>, <<
                        ExpressionStmt(SuperCall(5008, <<
                            Call(Variable(5009, "say"), <<N(1)>>),
                            Call(Variable(5010, "say"), <<N(2)>>)>>))>>)>>,
                  <<>>, <<>>, <<>>),
        ClassStmt("C", Variable(5011, "A"),
                  <<Method("init", <<>>, <<
                        ExpressionStmt(SuperCall(5012, <<
                            Call(Variable(5013, "say"), <<N(3)>>)>>)),
                        PrintStmt(S("after"))>>)>>,
                  <<>>, <<>>, <<>>),
        ClassStmt("D", None, <<>>, <<>>, <<>>, <<>>),
        ClassStmt("E", Variable(5014, "D"),
                  <<Method("init", <<>>, <<
                        ExpressionStmt(SuperCall(5015, <<>>)),
                        ExpressionStmt(Set(This(5016), "e", N(5)))>>)>>,
                  <<>>, <<>>, <<>>),
        VarStmt("b", Call(Variable(5017, "B"), <<>>)),
        PrintStmt(Get(Variable(5018, "b"), "p")),
        PrintStmt(Get(Variable(5019, "b"), "q")),
        ExpressionStmt(Call(Variable(5020, "C"), <<>>)),
        PrintStmt(Get(Call(Variable(5021, "E"), <<>>), "e"))>>)

(* class Base {}                                                           *)
(* class K < Base { static init() { print K; this.n = 1; print this; } }   *)
(* class L { static init() { print L; } }                                  *)
(* print K;  print K.n;  print L;                                          *)
ClassOrder ==
    Source(<<>>, <<
        ClassStmt("Base", None, <<>>, <<>>, <<>>, <<>>),
        ClassStmt("K", Variable(5101, "Base"), <<>>, <<>>,
                  <<Method("init", <<>>, <<
                        PrintStmt(Variable(5102, "K")),
                        ExpressionStmt(Set(This(5103), "n", N(1))),
                        PrintStmt(This(5104))>>)>>,
                  <<>>),
        ClassStmt("L", None, <<>>, <<>>,
                  <<Method("init", <<>>, <<PrintStmt(Variable(5105, "L"))>>)>>,
                  <<>>),
        PrintStmt(Variable(5106, "K")),
        PrintStmt(Get(Variable(5107, "K"), "n")),
        PrintStmt(Variable(5108, "L"))>>)

(* { class Base {}  class K < Base {}  print K; }                          *)
ClassInBlock ==
    Source(<<>>, <<
        BlockStmt(<<
            ClassStmt("Base", None, <<>>, <<>>, <<>>, <<>>),
            ClassStmt("K", Variable(5201, "Base"), <<>>, <<>>, <<>>, <<>>),
            PrintStmt(Variable(5202, "K"))>>)>>)

(* super();                                                                *)
SuperTopLevel ==
    Source(<<>>, <<ExpressionStmt(SuperCall(5301, <<>>))>>)

(* { class P { m() { return 1; } }                                         *)
(*   class Q < P { m() { return 2; }  get g { return 3; } }                *)
(*   print Q().m() + P().m() + Q().g; }                                    *)
DepthInBlock ==
    Source(<<>>, <<
        BlockStmt(<<
            ClassStmt("P", None, <<Method("m", <<>>, <<ReturnStmt(N(1))>>)>>,
                      <<>>, <<>>, <<>>),
            ClassStmt("Q", Variable(5401, "P"),
                      <<Method("m", <<>>, <<ReturnStmt(N(2))>>)>>,
                      <<Method("g", <<>>, <<ReturnStmt(N(3))>>)>>,
                      <<>>, <<>>),
            PrintStmt(Binary(Binary(Call(Get(Call(Variable(5402, "Q"), <<>>), "m"), <<>>),
                                    "+",
                                    Call(Get(Call(Variable(5403, "P"), <<>>), "m"), <<>>)),
                             "+",
                             Get(Call(Variable(5404, "Q"), <<>>), "g")))>>)>>)

(* class B {}  class D < B { static init() { print 1 - nil; } }            *)
(* { var a = nil;  while (true) { { print 1 - a; } } }                     *)
FaultNested ==
    Source(<<>>, <<
        ClassStmt("B", None, <<>>, <<>>, <<>>, <<>>),
        ClassStmt("D", Variable(5501, "B"), <<>>, <<>>,
                  <<Method("init", <<>>, <<
                        PrintStmt(Binary(N(1), "-", Literal(Nil)))>>)>>,
                  <<>>),
        BlockStmt(<<
            VarStmt("a", Literal(Nil)),
            WhileStmt(Literal(Bool(TRUE)),
                      BlockStmt(<<BlockStmt(<<
                          PrintStmt(Binary(N(1), "-", Variable(5502, "a")))>>)>>),
                      FALSE, FALSE)>>)>>)

Sources ==
    <<DefineG, PrintG, ResolveError, RuntimeFault, SyntaxError, Empty,
      ForContinue, ForPlain, WhileBreak, ErrorInCall, Counter, SharedFrame,
      Binding, Initializer, SuperDispatch, Members, Misc,
      BadSuperclass, BadGet, BadSet, BadCall,
      SelfInitTop, SelfInitBlock,
      SuperOnce, SuperMissing, SuperTwice, SuperEarly, SuperNested, SuperNestedThenProperty,
      ClassCall, ClassNoInit,
      PropertyOrder, GetterWrites,
      CallOrder, CallInstance,
      NestedSignals,
      UnusedLocals, SelfReference,
      Shadowing,
      ReturnTop, ReturnInit, ReturnStaticInit, ReturnAccepted, ReturnAfterNested,
      LoopNone, LoopFunctionBreak, LoopFunctionContinue, LoopAfter, LoopAccepted,
      ClassRedeclared,
      MemberTables, InstanceMethodOnClass, StaticMethodOnInstance, StaticGetterOnInstance,
      SetOnString, SetFields,
      StaticInitCall,
      SuperChain, SuperArgs,
      ClassOrder, ClassInBlock,
      SuperTopLevel, DepthInBlock,
      FaultNested>>

(* Index of a source text in Sources.                                      *)
Index(src) == CHOOSE i \in 1..Len(Sources) : Sources[i] = src

(* The texts given as script files, and those typed at the prompt.         *)
Scripts == 1..Len(Sources)
Lines == {Index(DefineG), Index(PrintG), Index(ResolveError), Index(RuntimeFault),
          Index(FaultNested)}

(* The longest prompt session explored.                                    *)
MaxLines == 3

-----------------------------------------------------------------------------
(* Lox: the driver.                                                        *)

(* Lox.run(source) as called by runFile and runPrompt, up to the start of  *)
(* the Resolver: the scanner and the parser report their errors, and run   *)
(* returns if hadError is set.                                             *)
run(i) ==
    LET src == Sources[i]
        afterParse == hadError \/ src.syntaxErrors # <<>>
    IN  /\ history' = Append(history, i)
        /\ stderr' = stderr \o src.syntaxErrors
        /\ hadError' = afterParse
        /\ IF afterParse
           THEN /\ pc' = "returned"
                /\ UNCHANGED <<resolver, work>>
           ELSE /\ pc' = "resolving"
                /\ resolver' = NewResolver
                /\ work' = VisitAll(src.statements)
        /\ UNCHANGED <<mode, exitCode, getAtStyle, hadRuntimeError, output, locals,
                       environment, heap, ctrl, kont>>

(* The source text Lox.run is working on.                                  *)
Running == Sources[history[Len(history)]]

(* The call this.interpreter.interpret(statements), up to the first        *)
(* statement.                                                              *)
interpretCall(statements) ==
    /\ pc' = "running"
    /\ kont' = <<[f |-> "interpret",
                  rest |-> IF statements = <<>> THEN <<>> ELSE Tail(statements)]>>
    /\ ctrl' = IF statements = <<>> THEN Done ELSE Exec(Head(statements))

(* Lox.run without `if (this.hadError) return' after the Resolver.         *)
Lox_run_unchecked ==
    /\ pc = "resolving"
    /\ work = <<>>
    /\ interpretCall(Running.statements)
    /\ UNCHANGED <<mode, history, exitCode, getAtStyle, hadError, hadRuntimeError, stderr,
                   resolver, work, output, locals, environment, heap>>

(* Lox.run once resolver.resolve(statements) has returned.                 *)
Lox_run ==
    /\ pc = "resolving"
    /\ work = <<>>
    /\ IF hadError
       THEN /\ pc' = "returned"
            /\ UNCHANGED <<ctrl, kont>>
       ELSE interpretCall(Running.statements)
    /\ UNCHANGED <<mode, history, exitCode, getAtStyle, hadError, hadRuntimeError, stderr,
                   resolver, work, output, locals, environment, heap>>

(* Interpreter.interpret with Lox.runtimeError.  Lox.runtimeError reads    *)
(* error.token.line, which only a RuntimeError has: for any other          *)
(* exception that read throws inside the catch clause.                     *)
interpret ==
    \/ /\ Completed("interpret")
       /\ Top.rest # <<>>
       /\ ctrl' = Exec(Head(Top.rest))
       /\ kont' = <<[Top EXCEPT !.rest = Tail(@)]>>
       /\ UNCHANGED <<driver, output, locals, environment, heap>>
    \/ /\ Completed("interpret")
       /\ Top.rest = <<>>
       /\ pc' = "returned"
       /\ ctrl' = Idle
       /\ kont' = <<>>
       /\ UNCHANGED <<mode, history, exitCode, getAtStyle, hadError, hadRuntimeError,
                      stderr, resolver, work, output, locals, environment, heap>>
    \/ /\ Thrown("interpret")
       /\ ctrl.err.kind = "RuntimeError"
       /\ stderr' = Append(stderr, "RuntimeError: " \o ctrl.err.message)
       /\ hadRuntimeError' = TRUE
       /\ pc' = "returned"
       /\ ctrl' = Idle
       /\ kont' = <<>>
       /\ UNCHANGED <<mode, history, exitCode, getAtStyle, hadError, resolver, work,
                      output, locals, environment, heap>>
    \/ /\ Thrown("interpret")
       /\ ctrl.err.kind # "RuntimeError"
       /\ pc' = "crashed"
       /\ ctrl' = Idle
       /\ kont' = <<>>
       /\ UNCHANGED <<mode, history, exitCode, getAtStyle, hadError, hadRuntimeError,
                      stderr, resolver, work, output, locals, environment, heap>>

(* Lox.main with more than one argument.                                   *)
main ==
    /\ mode = "usage"
    /\ pc = "idle"
    /\ output' = Append(output, "Usage: tsloc [script]")
    /\ pc' = "exited"
    /\ exitCode' = 64
    /\ UNCHANGED <<mode, history, getAtStyle, hadError, hadRuntimeError, stderr, locals,
                   resolver, work, environment, heap, ctrl, kont>>

runFile ==
    \/ /\ mode = "file"
       /\ pc = "idle"
       /\ \E i \in Scripts : run(i)
    \/ /\ mode = "file"
       /\ pc = "returned"
       /\ pc' = "exited"
       /\ exitCode' = IF hadError THEN 65 ELSE IF hadRuntimeError THEN 70 ELSE 0
       /\ UNCHANGED <<mode, history, getAtStyle, hadError, hadRuntimeError, stderr, output,
                      locals, resolver, work, environment, heap, ctrl, kont>>

(* runPrompt without `Lox.hadError = false'.                               *)
hadErrorKept(h) == h

(* The value runPrompt stores in Lox.hadError after Lox.run(line).         *)
hadErrorAfterLine(h) == FALSE

runPrompt ==
    \/ /\ mode = "prompt"
       /\ pc = "idle"
       /\ Len(history) < MaxLines
       /\ \E i \in Lines : run(i)
    \/ /\ mode = "prompt"
       /\ pc = "returned"
       /\ hadError' = hadErrorAfterLine(hadError)
       /\ pc' = "idle"
       /\ UNCHANGED <<mode, history, exitCode, getAtStyle, hadRuntimeError, stderr, output,
                      locals, resolver, work, environment, heap, ctrl, kont>>
    \/ /\ mode = "prompt"
       /\ pc = "idle"
       /\ pc' = "exited"
       /\ exitCode' = 0
       /\ UNCHANGED <<mode, history, getAtStyle, hadError, hadRuntimeError, stderr, output,
                      locals, resolver, work, environment, heap, ctrl, kont>>

-----------------------------------------------------------------------------

Init ==
    /\ mode \in {"usage", "file", "prompt"}
    /\ getAtStyle \in {"map", "checked"}
    /\ pc = "idle"
    /\ history = <<>>
    /\ exitCode = -1
    /\ hadError = FALSE
    /\ hadRuntimeError = FALSE
    /\ stderr = <<>>
    /\ output = <<>>
    /\ locals = EmptyMap
    /\ environment = Globals
    /\ envs = <<[values |-> MapSet(EmptyMap, "clock", NativeClock), enclosing |-> 0]>>
    /\ funs = <<>>
    /\ classes = <<>>
    /\ insts = <<>>
    /\ resolver = NewResolver
    /\ work = <<>>
    /\ ctrl = Idle
    /\ kont = <<>>

Next ==
    \/ main
    \/ runFile
    \/ runPrompt
    \/ Lox_run
    \/ resolveFunction
    \/ R_visitBlockStmt
    \/ R_visitClassStmt
    \/ R_visitFunctionStmt
    \/ R_visitVarStmt
    \/ R_visitExpressionStmt
    \/ R_visitIfStmt
    \/ R_visitPrintStmt
    \/ R_visitWhileStmt
    \/ R_visitReturnStmt
    \/ R_visitContinueStmt
    \/ R_visitBreakStmt
    \/ R_visitAssignExpr
    \/ R_visitVariableExpr
    \/ R_visitFunctionExprExpr
    \/ R_visitBinaryExpr
    \/ R_visitCallExpr
    \/ R_visitGetExpr
    \/ R_visitSetExpr
    \/ R_visitThisExpr
    \/ R_visitSuperExpr
    \/ R_visitSuperCallExpr
    \/ R_visitLiteralExpr
    \/ interpret
    \/ executeBlock
    \/ visitExpressionStmt
    \/ visitPrintStmt
    \/ visitVarStmt
    \/ visitBlockStmt
    \/ visitIfStmt
    \/ visitWhileStmt
    \/ visitFunctionStmt
    \/ visitReturnStmt
    \/ visitBreakStmt
    \/ visitContinueStmt
    \/ visitClassStmt
    \/ visitLiteralExpr
    \/ visitVariableExpr
    \/ visitThisExpr
    \/ visitAssignExpr
    \/ visitBinaryExpr
    \/ visitFunctionExprExpr
    \/ visitCallExpr
    \/ visitGetExpr
    \/ visitSetExpr
    \/ visitSuperExpr
    \/ visitSuperCallExpr
    \/ CallableFunction_call
    \/ LoxClass_call
    \/ clock
    \/ propagate

Spec == Init /\ [][Next]_vars

-----------------------------------------------------------------------------
(* Properties.                                                             *)

(* A script has been run to the end of the process.                        *)
Ran(src) == mode = "file" /\ pc = "exited" /\ history = <<Index(src)>>

(* The frame d links up from e holds name.                                 *)
Bound(e, d, name) ==
    /\ Env_ancestor(envs, e, d) # 0
    /\ MapHas(envs[Env_ancestor(envs, e, d)].values, name)

(* C1: a runtime error raised while the body of a user function or method  *)
(* is executing propagates out of CallableFunction.call: when the error    *)
(* reaches the call, the call ends by throwing that same error (it does    *)
(* not complete with a value), so that the error travels on towards        *)
(* Interpreter.interpret.                                                  *)
C1_RuntimeErrorLeavesCall ==
    [][(Thrown("call") /\ ctrl.err.kind = "RuntimeError")
          => (ctrl' = ctrl /\ kont' = Pop)]_vars

(* C2: executeBlock leaves the current environment equal to the one that   *)
(* was current before the call, on every exit path.  The call records the  *)
(* environment current before it; the record is not changed while the      *)
(* block is active; the block is left on normal completion and on any      *)
(* thrown error or signal, and the environment after it is the recorded    *)
(* one.                                                                    *)
C2_Called ==
    (pc' = "running" /\ Len(kont') > Len(kont) /\ kont'[Len(kont')].f = "block")
        => kont'[Len(kont')].previous = environment

C2_Active ==
    \A i \in 1..Len(kont) :
        (kont[i].f = "block" /\ (i < Len(kont) \/ Len(kont') >= Len(kont)))
            => (Len(kont') >= i /\ kont'[i].f = "block"
                /\ kont'[i].previous = kont[i].previous)

C2_Left ==
    (pc = "running" /\ Top.f = "block"
     /\ (ctrl.c = "throw" \/ (ctrl.c = "done" /\ Top.rest = <<>>)))
        => (kont' = Pop /\ environment' = Top.previous /\ ctrl' = ctrl)

C2_ExecuteBlockRestoresEnvironment ==
    [][C2_Called /\ C2_Active /\ C2_Left]_vars

(* A block has just been left by a runtime error thrown in a function      *)
(* body, and the environment is the one that was current at the call.      *)
C2_Witness ==
    /\ Thrown("call")
    /\ ctrl.err.kind = "RuntimeError"
    /\ history = <<Index(ErrorInCall)>>
    /\ kont[Len(kont) - 2].f = "block"
    /\ environment = Len(envs) - 1

(* C3: whenever the interpreter evaluates a node that has a distance d in  *)
(* the resolution map, the current environment has d enclosing links and   *)
(* the frame reached after d links binds the node's name (for super, the   *)
(* frame one nearer binds this as well).                                   *)
C3_DistanceReachesBinding ==
    /\ (pc = "running" /\ ctrl.c = "eval" /\ ctrl.e.k \in {"Variable", "This"}
        /\ MapHas(locals, ctrl.e.id))
           => Bound(environment, MapGet(locals, ctrl.e.id),
                    IF ctrl.e.k = "This" THEN "this" ELSE ctrl.e.name)
    /\ (pc = "running" /\ ctrl.c = "eval" /\ ctrl.e.k \in {"Super", "SuperCall"}
        /\ MapHas(locals, ctrl.e.id))
           => /\ Bound(environment, MapGet(locals, ctrl.e.id), "super")
              /\ Bound(environment, MapGet(locals, ctrl.e.id) - 1, "this")
    /\ (Returned("assignExpr") /\ MapHas(locals, Top.expr.id))
           => Bound(environment, MapGet(locals, Top.expr.id), Top.expr.name)

(* C4: `for (var i = 0; i < 3; i = i + 1) { if (i == 1) continue;          *)
(* print i; }' prints 0 then 2 and terminates without a runtime error.     *)
C4_ForContinuePrints02 ==
    Ran(ForContinue) => (output = <<"0", "2">> /\ ~hadRuntimeError /\ exitCode = 0)

(* C5: a function captures the frame it was declared in by reference:      *)
(* successive calls of one `next' returned by make() yield 1, 2, 3 while   *)
(* a `next' from another call of make() counts on its own, and a write     *)
(* made through one closure is read through another closure of the same    *)
(* frame; the closure of a function is a frame of the heap and never       *)
(* changes.                                                                *)
C5_Outputs ==
    /\ Ran(Counter) => output = <<"1", "2", "1", "3">>
    /\ Ran(SharedFrame) => output = <<"0", "5">>
    /\ \A f \in 1..Len(funs) : funs[f].closure \in 1..Len(envs)

C5_ClosureByReference ==
    []C5_Outputs
    /\ [][\A f \in 1..Len(funs) : Len(funs') >= f /\ funs'[f].closure = funs[f].closure]_vars

C5_Witness == Ran(Counter) /\ Len(output) = 4 /\ output[4] = "3"

(* C6: a method read from an instance is bound to that instance: called    *)
(* from a field of another instance, from inside a method of another       *)
(* class, or directly, `this' in its body is the original instance; and    *)
(* binding changes no function that exists already.                        *)
C6_Outputs == Ran(Binding) => output = <<"1", "1", "2", "1">>

C6_BoundMethodKeepsThis ==
    []C6_Outputs
    /\ [][\A f \in 1..Len(funs) : Len(funs') >= f /\ funs'[f] = funs[f]]_vars
    /\ [][\A e \in 1..Len(envs) :
            MapHas(envs[e].values, "this")
                => (Len(envs') >= e /\ MapHas(envs'[e].values, "this")
                    /\ MapGet(envs'[e].values, "this") = MapGet(envs[e].values, "this"))]_vars

C6_Witness == Ran(Binding) /\ Len(output) = 4 /\ insts[2].fields # EmptyMap

(* C7: a call of an initializer, by calling the class or as                *)
(* instance.init(), yields the instance the initializer is bound to, both  *)
(* when the body falls off its end and when it executes `return;'.         *)
C7_Outputs == Ran(Initializer) => output = <<"true", "true", "false", "1">>

C7_InitializerReturnsThis ==
    []C7_Outputs
    /\ [][(pc = "running" /\ ctrl.c \in {"done", "throw"} /\ Top.f = "call"
           /\ funs[Top.fn].isInitializer
           /\ (ctrl.c = "throw" => ctrl.err.kind = "ReturnError"))
              => (/\ MapHas(envs[funs[Top.fn].closure].values, "this")
                  /\ ctrl' = Val(MapGet(envs[funs[Top.fn].closure].values, "this")))]_vars

C7_Witness == Ran(Initializer) /\ Len(output) = 4 /\ output[2] = "true"

(* C8: super.m in a method of B (B < A) is looked up from A: it reaches    *)
(* A's m though B overrides m, also when this is an instance of C < B,     *)
(* and the method found is bound to the current this.                      *)
C8_SuperStartsAtDeclaredSuperclass ==
    Ran(SuperDispatch) => output = <<"A:c", "A:b", "C">>

C8_Witness == Ran(SuperDispatch) /\ Len(output) = 3 /\ output[1] = "A:c"

(* C9: if the scanner, the parser or the resolver reports an error for a   *)
(* source text, interpret is not called for it: the interpreter never      *)
(* runs while hadError is set, and while hadError is set nothing is        *)
(* printed and no frame, function, class or instance changes.              *)
C9_StaticErrorSkipsExecution ==
    [](pc = "running" => ~hadError)
    /\ [][(hadError \/ hadError')
            => (output' = output /\ heap' = heap /\ environment' = environment
                /\ pc' # "running")]_vars

(* A line with a resolution error has returned from Lox.run after a line   *)
(* that defined a global, and the global is as it was.                     *)
C9_Witness ==
    /\ mode = "prompt"
    /\ pc = "returned"
    /\ hadError
    /\ history = <<Index(DefineG), Index(ResolveError)>>
    /\ MapGet(envs[Globals].values, "g") = Num(7)
    /\ output = <<>>

(* C10: at the prompt hadError is clear whenever a line is awaited, so a   *)
(* valid line typed after a rejected one is executed; hadRuntimeError,     *)
(* once set, stays set; and a global defined by a line stays defined.      *)
C10_Awaiting ==
    /\ (mode = "prompt" /\ pc = "idle") => ~hadError
    /\ (mode = "prompt" /\ pc = "idle"
        /\ history = <<Index(ResolveError), Index(DefineG), Index(PrintG)>>)
           => output = <<"7">>

C10_PromptFlags ==
    []C10_Awaiting
    /\ [][hadRuntimeError => hadRuntimeError']_vars
    /\ [][\A i \in 1..Len(envs[Globals].values) :
            MapHas(envs'[Globals].values, envs[Globals].values[i].k)]_vars

C10_Witness ==
    /\ mode = "prompt"
    /\ pc = "idle"
    /\ history = <<Index(RuntimeFault), Index(ResolveError), Index(PrintG)>>
    /\ hadRuntimeError
    /\ ~hadError
    /\ Len(stderr) = 4

(* C11: a script file run ends with exit code 65 if a scanner, parser or   *)
(* resolver error was reported, otherwise 70 if a runtime error was        *)
(* reported, otherwise 0; with more than one argument the process exits    *)
(* with 64 and runs nothing.                                               *)
C11_ExitCodes ==
    /\ (mode = "file" /\ pc \in {"exited", "crashed"})
           => (/\ pc = "exited"
               /\ exitCode = IF hadError THEN 65
                             ELSE IF hadRuntimeError THEN 70 ELSE 0)
    /\ (mode = "usage" /\ pc = "exited")
           => (exitCode = 64 /\ history = <<>> /\ stderr = <<>>)
    /\ (mode = "file" /\ pc = "returned" /\ ~hadError /\ ~hadRuntimeError) => stderr = <<>>

(* The Resolver has finished the script src: stderr holds the messages it  *)
(* reported.                                                               *)
ResolverDone(src) ==
    mode = "file" /\ history = <<Index(src)>> /\ pc = "resolving" /\ work = <<>>

(* C12: resolving top-level `var a = a;' reports no error and leaves the   *)
(* reference to the global frame, whereas resolving `{ var a = a; }'       *)
(* reports "Can't read local variable in its own initializer." and no      *)
(* other message.                                                          *)
C12_SelfInitializer ==
    /\ ResolverDone(SelfInitTop) => (stderr = <<>> /\ ~MapHas(locals, 1801))
    /\ ResolverDone(SelfInitBlock)
           => stderr = <<"Can't read local variable in its own initializer.">>

(* C13: for the init method of a derived class the resolver reports        *)
(* "Superclass was not initialized inside subclass initializer." exactly   *)
(* if the body has no super(...), "Can't call 'super' more than once       *)
(* inside class initializer." exactly if a second super(...) occurs, and   *)
(* "Can't access property on superclass until 'super' has been called."    *)
(* exactly for a super.property that no super(...) precedes, whatever      *)
(* nested functions the initializer contains.                              *)
C13_SuperCallVerdicts ==
    /\ ResolverDone(SuperOnce) => stderr = <<>>
    /\ ResolverDone(SuperMissing)
           => stderr = <<"Superclass was not initialized inside subclass initializer.">>
    /\ ResolverDone(SuperTwice)
           => stderr = <<"Can't call 'super' more than once inside class initializer.">>
    /\ ResolverDone(SuperEarly)
           => stderr = <<"Can't access property on superclass until 'super' has been called.">>
    /\ ResolverDone(SuperNested) => stderr = <<>>
    /\ ResolverDone(SuperNestedThenProperty) => stderr = <<>>

(* The instance init of class c: its own, else that of the nearest         *)
(* superclass that declares one (0: none).                                 *)
RECURSIVE InitOf(_)
InitOf(c) ==
    IF MapHas(classes[c].methods, "init") THEN MapGet(classes[c].methods, "init")
    ELSE IF classes[c].superclass # 0 THEN InitOf(classes[c].superclass)
    ELSE 0

(* C14: calling a class allocates a fresh instance of that class, invokes  *)
(* the init found on the inheritance chain (own table first) bound to the  *)
(* new instance with the call's arguments, and evaluates to the new        *)
(* instance; the class's arity is that of this init, 0 without one.        *)
C14_Outputs ==
    /\ Ran(ClassCall)
           => (/\ output = <<"3", "8", "false">>
               /\ stderr = <<"RuntimeError: Expected 2 arguments but got 1.">>)
    /\ Ran(ClassNoInit)
           => (/\ output = <<"Z instance">>
               /\ stderr = <<"RuntimeError: Expected 0 arguments but got 1.">>)
    /\ (pc = "running" /\ ctrl.c = "invoke" /\ ctrl.callee.t = "class")
           => Len(ctrl.args) = IF InitOf(ctrl.callee.n) = 0 THEN 0
                               ELSE Len(funs[InitOf(ctrl.callee.n)].declaration.params)

C14_Allocates ==
    (pc = "running" /\ ctrl.c = "invoke" /\ ctrl.callee.t = "class")
        => LET c == ctrl.callee.n
               new == Len(insts) + 1
           IN  /\ Len(insts') = new
               /\ insts'[new] = [klass |-> c, fields |-> EmptyMap]
               /\ \A i \in 1..Len(insts) : insts'[i] = insts[i]
               /\ IF InitOf(c) = 0
                  THEN ctrl' = Val(InstV(new)) /\ kont' = kont
                  ELSE /\ ctrl'.c = "invoke"
                       /\ ctrl'.args = ctrl.args
                       /\ ctrl'.callee.t = "fn"
                       /\ funs'[ctrl'.callee.n].declaration = funs[InitOf(c)].declaration
                       /\ Env_get(envs', funs'[ctrl'.callee.n].closure, "this")
                              = Ok(InstV(new))
                       /\ kont' = Push([f |-> "loxClassCall", instance |-> InstV(new)])

C14_Returns ==
    Returned("loxClassCall")
        => (ctrl' = Val(Top.instance) /\ insts[Top.instance.n].klass \in 1..Len(classes))

C14_ClassCall ==
    []C14_Outputs /\ [][C14_Allocates /\ C14_Returns]_vars

C14_Witness ==
    /\ Ran(ClassCall)
    /\ output = <<"3", "8", "false">>
    /\ Len(insts) = 3
    /\ insts[2].klass = 3

(* The function stored under name in the given table ("methods",           *)
(* "getters") of class c or of the nearest superclass that has it (0:      *)
(* none).                                                                  *)
RECURSIVE OnChain(_, _, _)
OnChain(c, table, name) ==
    IF MapHas(classes[c][table], name) THEN MapGet(classes[c][table], name)
    ELSE IF classes[c].superclass # 0 THEN OnChain(classes[c].superclass, table, name)
    ELSE 0

(* ctrl' is a function made from f with `this' bound to obj.               *)
C15_BoundTo(fn, f, obj) ==
    /\ fn.t = "fn"
    /\ fn.n \in 1..Len(funs')
    /\ funs'[fn.n].declaration = funs[f].declaration
    /\ Env_get(envs', funs'[fn.n].closure, "this") = Ok(obj)
    /\ envs'[funs'[fn.n].closure].enclosing = funs[f].closure

(* C15 as the spec words it: a property read, the invocation of a getter   *)
(* included, never changes the instance's field map.  In GetterWrites the  *)
(* only statement run before 2 is printed, besides the creation of c, is   *)
(* the read c.x.                                                           *)
C15_ReadNeverChangesFields ==
    (mode = "file" /\ history = <<Index(GetterWrites)>> /\ output = <<"2">>)
        => \A i \in 1..Len(insts) : insts[i].fields = EmptyMap

(* C15, amended: a property read on an instance takes a field of that      *)
(* name first; otherwise it invokes at once, with this bound to the        *)
(* instance, a getter found on the class chain; otherwise it returns a     *)
(* method found on the class chain bound to the instance; otherwise it     *)
(* raises "Undefined property '<name>'.".  The lookup itself changes no    *)
(* field map; only the statements of an invoked getter's body may.         *)
C15_Outputs ==
    /\ Ran(PropertyOrder)
           => (/\ output = <<"t", "method", "getter A", "field">>
               /\ stderr = <<"RuntimeError: Undefined property 'zzz'.">>)
    /\ Ran(GetterWrites) => output = <<"2", "1">>

C15_Get ==
    (Returned("getExpr") /\ ctrl.v.t = "inst")
        => LET obj == ctrl.v
               name == Top.expr.name
               fields == insts[obj.n].fields
               getter == OnChain(insts[obj.n].klass, "getters", name)
               method == OnChain(insts[obj.n].klass, "methods", name)
           IN  /\ insts' = insts
               /\ classes' = classes
               /\ kont' = Pop
               /\ IF MapHas(fields, name) THEN ctrl' = Val(MapGet(fields, name))
                  ELSE IF getter # 0
                  THEN /\ ctrl'.c = "invoke"
                       /\ ctrl'.args = <<>>
                       /\ C15_BoundTo(ctrl'.callee, getter, obj)
                  ELSE IF method # 0
                  THEN ctrl'.c = "val" /\ C15_BoundTo(ctrl'.v, method, obj)
                  ELSE ctrl' = Throw(RuntimeError("Undefined property '" \o name \o "'."))

C15_PropertyRead == []C15_Outputs /\ [][C15_Get]_vars

C15_Witness ==
    /\ Ran(PropertyOrder)
    /\ output = <<"t", "method", "getter A", "field">>
    /\ hadRuntimeError

(* C16: a call evaluates the callee, then the arguments left to right,     *)
(* then rejects a callee that is not callable (nil, a boolean, a number,   *)
(* a string, a plain instance) with "Can only call functions and           *)
(* classes.", then an argument count different from the arity with         *)
(* "Expected N arguments but got M."; only then is the callee invoked.     *)
C16_Checked(callee, args) ==
    IF callee.t \notin {"fn", "class", "native"}
    THEN ctrl' = Throw(RuntimeError("Can only call functions and classes."))
    ELSE IF Len(args) # arity(classes, funs, callee)
    THEN ctrl' = Throw(RuntimeError("Expected " \o ToString(arity(classes, funs, callee))
                                    \o " arguments but got " \o ToString(Len(args)) \o "."))
    ELSE ctrl' = Invoke(callee, args)

C16_Outputs ==
    /\ Ran(CallOrder)
           => (/\ output = <<"1", "2", "3", "3">>
               /\ stderr = <<"RuntimeError: Expected 2 arguments but got 1.">>)
    /\ Ran(CallInstance)
           => stderr = <<"RuntimeError: Can only call functions and classes.">>

C16_CallChecks ==
    /\ []C16_Outputs
    /\ [][/\ (Returned("callCallee") /\ Top.expr.args = <<>>) => C16_Checked(ctrl.v, <<>>)
          /\ (Returned("callArgs") /\ Top.rest = <<>>)
                 => C16_Checked(Top.callee, Append(Top.args, ctrl.v))]_vars

(* The signals return, break and continue.                                 *)
Signals == {"ReturnError", "BreakError", "ContinueError"}

(* C17: a return inside any nesting of blocks, ifs and loops of a function *)
(* body ends that call, which yields the returned value; a break or        *)
(* continue is consumed by the nearest enclosing while loop, whose outer   *)
(* loop goes on; a while loop passes every other signal or error on        *)
(* unchanged, and so does every construct that is not the matching one.    *)
C17_Outputs ==
    /\ Ran(NestedSignals) => (output = <<"2", "1", "2", "end">> /\ exitCode = 0)
    /\ (pc = "running" /\ ctrl.c = "throw" /\ ctrl.err.kind \in Signals)
           => Top.f # "interpret"
    /\ (pc = "running" /\ ctrl.c = "throw"
        /\ ctrl.err.kind \in {"BreakError", "ContinueError"})
           => Top.f # "call"

C17_Consumed ==
    /\ (Thrown("whileBody") /\ ctrl.err.kind = "BreakError")
           => (ctrl' = Done /\ kont' = Pop)
    /\ (Thrown("whileBody") /\ ctrl.err.kind = "ContinueError")
           => (/\ Len(kont') = Len(kont)
               /\ kont'[Len(kont)].stmt = Top.stmt
               /\ Pop = SubSeq(kont', 1, Len(kont) - 1)
               /\ ctrl'.c \in {"eval", "exec"})
    /\ (Thrown("whileBody") /\ ctrl.err.kind \notin {"BreakError", "ContinueError"})
           => (ctrl' = ctrl /\ kont' = Pop)
    /\ (Thrown("call") /\ ctrl.err.kind = "ReturnError" /\ ~funs[Top.fn].isInitializer)
           => (ctrl' = Val(ctrl.err.v) /\ kont' = Pop)
    /\ (pc = "running" /\ ctrl.c = "throw" /\ ctrl.err.kind \in Signals
        /\ Top.f \notin {"whileBody", "call"})
           => (ctrl' = ctrl /\ kont' = Pop)

C17_SignalsMatch == []C17_Outputs /\ [][C17_Consumed]_vars

(* The return of find() has come up through two blocks and the loop to     *)
(* the call.                                                               *)
C17_Witness ==
    /\ Thrown("call")
    /\ ctrl.err.kind = "ReturnError"
    /\ ctrl.err.v = Num(2)
    /\ history = <<Index(NestedSignals)>>

(* C18 as the spec words it: a name is reported when its scope is popped   *)
(* only if no variable read or assignment was resolved to it while the     *)
(* scope was live.  In SelfReference the read of f in the function         *)
(* expression is resolved to the f of the block (distance 1).              *)
C18_ReportedOnlyIfNeverResolved ==
    ResolverDone(SelfReference)
        => (MapHas(locals, 3401) /\ MapGet(locals, 3401) = 1 /\ stderr = <<>>)

(* C18, amended: when the resolver pops a scope it reports "Unused local   *)
(* variable <name>." for exactly the names of that scope whose state is    *)
(* not USED then, in the order they were declared: variables, parameters,  *)
(* local functions and local classes to which no read or assignment has    *)
(* been resolved since they were defined.  this and super are always USED  *)
(* and declarations at top level are not tracked.                          *)
C18_Outputs ==
    /\ ResolverDone(UnusedLocals)
           => stderr = <<"Unused local variable b.", "Unused local variable q.",
                         "Unused local variable g.", "Unused local variable K.">>
    /\ ResolverDone(SelfReference)
           => (MapGet(locals, 3401) = 1 /\ stderr = <<"Unused local variable f.">>)
    /\ ResolverDone(Members) => stderr = <<>>
    /\ ResolverDone(DefineG) => stderr = <<>>
    /\ \A i \in 1..Len(resolver.scopes) :
           \A j \in 1..Len(resolver.scopes[i]) :
               resolver.scopes[i][j].k \in {"this", "super"}
                   => resolver.scopes[i][j].v = "USED"
    /\ (pc = "resolving" /\ work = <<>>) => resolver.scopes = <<>>

(* The messages for the entries of scope from the i-th on.                 *)
RECURSIVE C18_Unused(_, _)
C18_Unused(scope, i) ==
    IF i > Len(scope) THEN <<>>
    ELSE (IF scope[i].v = "USED" THEN <<>>
          ELSE <<"Unused local variable " \o scope[i].k \o ".">>)
         \o C18_Unused(scope, i + 1)

(* The messages for the scopes from the top one down to the i-th.          *)
RECURSIVE C18_UnusedDownTo(_, _)
C18_UnusedDownTo(scopes, i) ==
    IF Len(scopes) < i THEN <<>>
    ELSE C18_Unused(scopes[Len(scopes)], 1)
         \o C18_UnusedDownTo(SubSeq(scopes, 1, Len(scopes) - 1), i)

C18_Popped ==
    (pc = "resolving" /\ Len(resolver'.scopes) < Len(resolver.scopes))
        => \E more \in {<<>>,
                        <<"Superclass was not initialized inside subclass initializer.">>} :
               stderr' = stderr \o C18_UnusedDownTo(resolver.scopes,
                                                    Len(resolver'.scopes) + 1)
                                \o more

C18_UnusedReported == []C18_Outputs /\ [][C18_Popped]_vars

C18_Witness ==
    /\ ResolverDone(UnusedLocals)
    /\ Len(stderr) = 4
    /\ hadError

(* The Resolver is at a call of resolveLocal, and the node and the name    *)
(* it is called with.                                                      *)
C19_AtResolveLocal ==
    \/ Resolving("Variable") \/ Resolving("This") \/ Resolving("Super")
    \/ Resolving("SuperCall") \/ Resuming("visitAssignExpr")

C19_Node == IF Resuming("visitAssignExpr") THEN Head(work).expr ELSE Head(work).s

C19_Name ==
    CASE C19_Node.k = "This" -> "this"
      [] C19_Node.k \in {"Super", "SuperCall"} -> "super"
      [] OTHER -> C19_Node.name

(* The innermost scope that declares name (0: none).                       *)
C19_Innermost(scopes, name) ==
    IF \E i \in 1..Len(scopes) : MapHas(scopes[i], name)
    THEN CHOOSE i \in 1..Len(scopes) :
             /\ MapHas(scopes[i], name)
             /\ \A j \in (i + 1)..Len(scopes) : ~MapHas(scopes[j], name)
    ELSE 0

(* C19: resolveLocal binds a reference to the innermost live scope that    *)
(* declares the name and records distance = index of the top scope minus   *)
(* index of that scope, between 0 and depth - 1; if no live scope declares *)
(* the name nothing is written to the resolution map and the reference is  *)
(* looked up in the globals.                                               *)
C19_Outputs ==
    /\ Ran(Shadowing) => output = <<"inner", "outer", "outer", "global", "global">>
    /\ ResolverDone(Shadowing)
           => (/\ MapGet(locals, 3501) = 0
               /\ MapGet(locals, 3502) = 0
               /\ MapGet(locals, 3503) = 1
               /\ Len(locals) = 3
               /\ stderr = <<>>)

C19_Recorded ==
    /\ C19_AtResolveLocal
           => LET scopes == resolver.scopes
                  hit == C19_Innermost(scopes, C19_Name)
              IN  IF hit = 0
                  THEN locals' = locals /\ resolver'.scopes = scopes
                  ELSE /\ locals' = MapSet(locals, C19_Node.id, Len(scopes) - hit)
                       /\ Len(scopes) - hit \in 0..(Len(scopes) - 1)
                       /\ resolver'.scopes
                              = [scopes EXCEPT ![hit] = MapSet(@, C19_Name, "USED")]
    /\ ~C19_AtResolveLocal => locals' = locals

C19_ResolveLocal == []C19_Outputs /\ [][C19_Recorded]_vars

C19_Witness ==
    /\ ResolverDone(Shadowing)
    /\ MapHas(locals, 3503)
    /\ MapGet(locals, 3503) = 1
    /\ ~MapHas(locals, 3504)

(* C20: the resolver reports "Can't return from top-level code." for a     *)
(* return exactly when it is in no function, method, getter or function    *)
(* expression, and "Can't return a value from an initializer." exactly     *)
(* for a return with a value whose innermost function is an instance or    *)
(* static init; return; in an initializer and a return with a value in a   *)
(* function nested in an initializer are accepted, and currentFunction is  *)
(* the enclosing function's type again after a nested function.            *)
C20_Outputs ==
    /\ ResolverDone(ReturnTop) => stderr = <<"Can't return from top-level code.">>
    /\ ResolverDone(ReturnInit) => stderr = <<"Can't return a value from an initializer.">>
    /\ ResolverDone(ReturnStaticInit)
           => stderr = <<"Can't return a value from an initializer.">>
    /\ ResolverDone(ReturnAccepted) => stderr = <<>>
    /\ ResolverDone(ReturnAfterNested)
           => stderr = <<"Can't return a value from an initializer.">>
    /\ (pc = "resolving" /\ work = <<>>) => resolver.currentFunction = "NONE"

C20_Reported ==
    /\ Resolving("Return")
           => stderr' = stderr
                  \o (IF resolver.currentFunction = "NONE"
                      THEN <<"Can't return from top-level code.">> ELSE <<>>)
                  \o (IF /\ Head(work).s.value # None
                         /\ resolver.currentFunction \in {"INITIALIZER", "STATIC_INITIALIZER"}
                      THEN <<"Can't return a value from an initializer.">> ELSE <<>>)
    /\ (Resolving("Function") \/ Resolving("FunctionExpr"))
           => (/\ resolver'.currentFunction = "FUNCTION"
               /\ work'[Len(Head(work).s.body) + 1].enclosingFunction
                      = resolver.currentFunction)
    /\ Resuming("resolveFunction")
           => resolver'.currentFunction = Head(work).enclosingFunction

C20_ReturnRules == []C20_Outputs /\ [][C20_Reported]_vars

C20_Witness ==
    /\ ResolverDone(ReturnAfterNested)
    /\ stderr = <<"Can't return a value from an initializer.">>
    /\ hadError

(* C21: the resolver reports an illegal break or continue exactly when the *)
(* statement is in no while body within its innermost function: one in a   *)
(* function declared inside a loop is rejected, a break later in the same  *)
(* loop body is accepted because currentLoop is restored after the         *)
(* function, and after a loop currentLoop has its previous value.          *)
C21_Outputs ==
    /\ ResolverDone(LoopNone)
           => stderr = <<"Illegal continue statement.", "Illegal continue statement.">>
    /\ ResolverDone(LoopFunctionBreak) => stderr = <<"Illegal continue statement.">>
    /\ ResolverDone(LoopFunctionContinue) => stderr = <<"Illegal continue statement.">>
    /\ ResolverDone(LoopAfter) => stderr = <<"Illegal continue statement.">>
    /\ ResolverDone(LoopAccepted) => stderr = <<>>
    /\ (pc = "resolving" /\ work = <<>>) => resolver.currentLoop = "NONE"

C21_Reported ==
    /\ (Resolving("Break") \/ Resolving("Continue"))
           => stderr' = stderr
                  \o (IF resolver.currentLoop = "NONE"
                      THEN <<"Illegal continue statement.">> ELSE <<>>)
    /\ Resuming("whileBody")
           => (/\ resolver'.currentLoop = "WHILE"
               /\ work'[2].enclosingLoop = resolver.currentLoop)
    /\ Resuming("whileEnd") => resolver'.currentLoop = Head(work).enclosingLoop
    /\ (Resolving("Function") \/ Resolving("FunctionExpr"))
           => (/\ resolver'.currentLoop = "NONE"
               /\ work'[Len(Head(work).s.body) + 1].enclosingLoop = resolver.currentLoop)
    /\ Resuming("resolveFunction") => resolver'.currentLoop = Head(work).enclosingLoop

C21_LoopRules == []C21_Outputs /\ [][C21_Reported]_vars

C21_Witness ==
    /\ ResolverDone(LoopFunctionBreak)
    /\ stderr = <<"Illegal continue statement.">>
    /\ hadError

(* C22: in every reachable state the superclass chain of every class       *)
(* object is finite and acyclic (a superclass is a class object that       *)
(* existed before the class was constructed), also when a class name is    *)
(* redeclared at global scope or a superclass variable is reassigned, and  *)
(* the superclass link of a class object never changes.                    *)
RECURSIVE ChainLength(_, _)
ChainLength(c, fuel) ==
    IF c = 0 THEN 0
    ELSE IF fuel = 0 THEN -1
    ELSE LET up == ChainLength(classes[c].superclass, fuel - 1)
         IN  IF up = -1 THEN -1 ELSE up + 1

C22_Acyclic ==
    \A c \in 1..Len(classes) :
        /\ classes[c].superclass \in 0..(c - 1)
        /\ ChainLength(c, Len(classes)) \in 1..Len(classes)

C22_LinkKept ==
    \A c \in 1..Len(classes) :
        /\ Len(classes') >= c
        /\ classes'[c].superclass = classes[c].superclass

C22_Outputs == Ran(ClassRedeclared) => output = <<"old", "new", "old">>

C22_SuperclassChain == [](C22_Acyclic /\ C22_Outputs) /\ [][C22_LinkKept]_vars

C22_Witness ==
    /\ Ran(ClassRedeclared)
    /\ output = <<"old", "new", "old">>
    /\ Len(classes) = 3
    /\ classes[3].name = "A" /\ classes[3].superclass = 2
    /\ classes[2].superclass = 1 /\ classes[1].name = "A"
    /\ ChainLength(3, 3) = 3

(* C23 as worded: over getters and methods together, the nearest class in  *)
(* the chain that declares the name wins.  The member a read finds is      *)
(* declared by the first class of the chain that has the name in its       *)
(* getter table or in its method table.                                    *)
RECURSIVE C23_Nearest(_, _, _)
C23_Nearest(c, name, isStatic) ==
    LET getters == IF isStatic THEN classes[c].staticGetters ELSE classes[c].getters
        methods == IF isStatic THEN classes[c].staticMethods ELSE classes[c].methods
    IN  IF MapHas(getters, name) THEN MapGet(getters, name)
        ELSE IF MapHas(methods, name) THEN MapGet(methods, name)
        ELSE IF classes[c].superclass # 0
        THEN C23_Nearest(classes[c].superclass, name, isStatic)
        ELSE 0

C23_NearestClassWins ==
    [][(/\ Returned("getExpr")
        /\ IsInstance(ctrl.v)
        /\ ~MapHas(Fields(classes, insts, ctrl.v), Top.expr.name)
        /\ C23_Nearest(Klass(insts, ctrl.v), Top.expr.name, ctrl.v.t = "class") # 0)
          => funs'[Len(funs')].declaration
                 = funs[C23_Nearest(Klass(insts, ctrl.v), Top.expr.name,
                                    ctrl.v.t = "class")].declaration]_vars

(* C23, amended: a property read on a class object consults the class's    *)
(* own fields and then only the static getter and static method tables of  *)
(* the class and its superclasses; a read on an ordinary instance consults *)
(* its fields and then only the instance getter and method tables of the   *)
(* chain.  A getter anywhere in the chain is taken before any method;      *)
(* among getters, and among methods, the nearest class that declares the   *)
(* name wins.                                                              *)
C23_Outputs ==
    /\ Ran(MemberTables)
           => (/\ output = <<"B.n", "A.x", "A.g", "static A.n", "static A.n", "A.sg",
                             "B.s", "field">>
               /\ stderr = <<"RuntimeError: Undefined property 'g'.">>)
    /\ Ran(InstanceMethodOnClass)
           => (output = <<>> /\ stderr = <<"RuntimeError: Undefined property 'x'.">>)
    /\ Ran(StaticMethodOnInstance)
           => (output = <<>> /\ stderr = <<"RuntimeError: Undefined property 's'.">>)
    /\ Ran(StaticGetterOnInstance)
           => (output = <<>> /\ stderr = <<"RuntimeError: Undefined property 'sg'.">>)

C23_Get ==
    (Returned("getExpr") /\ IsInstance(ctrl.v))
        => LET obj == ctrl.v
               name == Top.expr.name
               onClass == obj.t = "class"
               klass == IF onClass THEN obj.n ELSE insts[obj.n].klass
               fields == IF onClass THEN classes[obj.n].fields ELSE insts[obj.n].fields
               getter == OnChain(klass, IF onClass THEN "staticGetters" ELSE "getters", name)
               method == OnChain(klass, IF onClass THEN "staticMethods" ELSE "methods", name)
           IN  IF MapHas(fields, name) THEN ctrl' = Val(MapGet(fields, name))
               ELSE IF getter # 0
               THEN /\ ctrl'.c = "invoke"
                    /\ funs'[ctrl'.callee.n].declaration = funs[getter].declaration
                    /\ Env_get(envs', funs'[ctrl'.callee.n].closure, "this") = Ok(obj)
               ELSE IF method # 0
               THEN /\ ctrl'.c = "val"
                    /\ funs'[ctrl'.v.n].declaration = funs[method].declaration
                    /\ Env_get(envs', funs'[ctrl'.v.n].closure, "this") = Ok(obj)
               ELSE ctrl' = Throw(RuntimeError("Undefined property '" \o name \o "'."))

C23_MemberLookup == []C23_Outputs /\ [][C23_Get]_vars

C23_Witness ==
    /\ Ran(MemberTables)
    /\ output = <<"B.n", "A.x", "A.g", "static A.n", "static A.n", "A.sg", "B.s", "field">>
    /\ stderr = <<"RuntimeError: Undefined property 'g'.">>

(* C24: obj.name = v on a target that is not an instance (or class         *)
(* object) raises "Only instances have fields." without evaluating the     *)
(* value expression and without changing any field map; on an instance it  *)
(* inserts or overwrites exactly the field name of that instance, leaves   *)
(* every other field and every other instance unchanged, and evaluates to  *)
(* the assigned value.                                                     *)
C24_Keys(fields) == {fields[i].k : i \in 1..Len(fields)}

C24_Written(before, after, name, value) ==
    /\ C24_Keys(after) = C24_Keys(before) \cup {name}
    /\ MapGet(after, name) = value
    /\ \A key \in C24_Keys(before) \ {name} : MapGet(after, key) = MapGet(before, key)

C24_Outputs ==
    /\ Ran(SetOnString)
           => (output = <<>> /\ stderr = <<"RuntimeError: Only instances have fields.">>)
    /\ Ran(SetFields) => (output = <<"3", "3", "2", "9", "4">> /\ stderr = <<>>)

C24_Set ==
    /\ (Returned("setObject") /\ ~IsInstance(ctrl.v))
           => (/\ ctrl' = Throw(RuntimeError("Only instances have fields."))
               /\ kont' = Pop
               /\ insts' = insts /\ classes' = classes)
    /\ (Returned("setObject") /\ IsInstance(ctrl.v))
           => (/\ ctrl' = Eval(Top.expr.value)
               /\ kont'[Len(kont)].obj = ctrl.v
               /\ insts' = insts /\ classes' = classes)
    /\ Returned("setValue")
           => (/\ ctrl' = Val(ctrl.v)
               /\ kont' = Pop
               /\ Len(insts') = Len(insts) /\ Len(classes') = Len(classes)
               /\ \A i \in 1..Len(insts) :
                      IF Top.obj = InstV(i)
                      THEN /\ C24_Written(insts[i].fields, insts'[i].fields,
                                          Top.expr.name, ctrl.v)
                           /\ insts'[i].klass = insts[i].klass
                      ELSE insts'[i] = insts[i]
               /\ \A c \in 1..Len(classes) :
                      IF Top.obj = ClassV(c)
                      THEN /\ C24_Written(classes[c].fields, classes'[c].fields,
                                          Top.expr.name, ctrl.v)
                           /\ [classes'[c] EXCEPT !.fields = EmptyMap]
                                  = [classes[c] EXCEPT !.fields = EmptyMap]
                      ELSE classes'[c] = classes[c])

C24_PropertyAssignment == []C24_Outputs /\ [][C24_Set]_vars

C24_Witness ==
    /\ Ran(SetFields)
    /\ output = <<"3", "3", "2", "9", "4">>
    /\ Len(insts) = 2
    /\ C24_Keys(insts[1].fields) = {"x", "y"}
    /\ MapGet(insts[1].fields, "x") = Num(3)
    /\ MapGet(insts[2].fields, "x") = Num(9)

(* C25: the callable built for a method of a class declaration has         *)
(* isInitializer set exactly when it is an instance method named init;     *)
(* the callables of a static method named init, of getters and of every    *)
(* other method have it unset, so that only instance initializers yield    *)
(* `this' in place of their return value.                                  *)
C25_Flags(table, initializers) ==
    \A i \in 1..Len(table) :
        funs[table[i].v].isInitializer = (initializers /\ table[i].k = "init")

C25_IsInitializerOnlyForInstanceInit ==
    /\ \A c \in 1..Len(classes) :
           /\ C25_Flags(classes[c].methods, TRUE)
           /\ C25_Flags(classes[c].staticMethods, FALSE)
           /\ C25_Flags(classes[c].getters, FALSE)
           /\ C25_Flags(classes[c].staticGetters, FALSE)
    /\ Ran(StaticInitCall) => output = <<"nil", "A instance", "4">>

(* C26: super(args) in a derived-class initializer evaluates its           *)
(* arguments left to right, raises "Expected N arguments but got M."       *)
(* unless their number is the arity of the superclass's instance init (0   *)
(* without one), then runs that init bound to the current `this' and       *)
(* evaluates to nil; through a chain of such calls every ancestor          *)
(* initializer writes its fields on the one instance being constructed     *)
(* and no other instance is created.                                       *)
C26_Lexical(name) == MapGet(envs[Env_holder(envs, environment, name)].values, name)

C26_Outputs ==
    /\ Ran(SuperChain)
           => (/\ output = <<"HeadTeacher instance", "John", "70", "Science", "St Nins">>
               /\ Len(insts) = 1
               /\ insts[1].klass = 3)
    /\ Ran(SuperArgs) => (output = <<"1", "2", "1", "2", "3", "5">> /\ Len(insts) = 3)

(* The super call whose arguments args are all evaluated, made by the      *)
(* visitor whose caller's stack is K.                                      *)
C26_Called(K, args) ==
    LET superclass == C26_Lexical("super").n
        obj == C26_Lexical("this")
        initializer == InitOf(superclass)
        expected == IF initializer = 0 THEN 0 ELSE Len(funs[initializer].declaration.params)
    IN  IF Len(args) # expected
        THEN /\ ctrl' = Throw(RuntimeError("Expected " \o ToString(expected)
                                           \o " arguments but got "
                                           \o ToString(Len(args)) \o "."))
             /\ kont' = K
        ELSE IF initializer # 0
        THEN /\ ctrl'.c = "invoke"
             /\ ctrl'.args = args
             /\ C15_BoundTo(ctrl'.callee, initializer, obj)
             /\ Len(kont') = Len(K) + 1
        ELSE ctrl' = Val(Nil) /\ kont' = K

C26_Steps ==
    /\ (Evaluating("SuperCall") /\ ctrl.e.args # <<>>)
           => (/\ ctrl' = Eval(ctrl.e.args[1])
               /\ kont'[Len(kont')].args = <<>>
               /\ kont'[Len(kont')].rest = Tail(ctrl.e.args))
    /\ (Evaluating("SuperCall") /\ ctrl.e.args = <<>>) => C26_Called(kont, <<>>)
    /\ (Returned("superCallArgs") /\ Top.rest # <<>>)
           => (/\ ctrl' = Eval(Head(Top.rest))
               /\ kont'[Len(kont')].args = Append(Top.args, ctrl.v)
               /\ kont'[Len(kont')].rest = Tail(Top.rest))
    /\ (Returned("superCallArgs") /\ Top.rest = <<>>)
           => C26_Called(Pop, Append(Top.args, ctrl.v))
    /\ Returned("superCall") => (ctrl' = Val(Nil) /\ kont' = Pop)
    /\ (Evaluating("SuperCall") \/ Returned("superCallArgs") \/ Returned("superCall"))
           => insts' = insts

C26_SuperCall == []C26_Outputs /\ [][C26_Steps]_vars

C26_Witness ==
    /\ Ran(SuperChain)
    /\ Len(insts) = 1
    /\ C24_Keys(insts[1].fields) = {"name", "age", "subject", "school"}
    /\ MapGet(insts[1].fields, "name") = Str("John")
    /\ MapGet(insts[1].fields, "school") = Str("St Nins")

(* C27: a class declaration evaluates the superclass expression first (a   *)
(* value that is not a class raises a runtime error before the name is     *)
(* defined), then defines the class name as nil in the current             *)
(* environment, then constructs the class object, which runs the static    *)
(* init (if any) bound to the class while the name is still nil, and only  *)
(* then assigns the class object to the name; when the declaration         *)
(* completes, the current environment is the one in effect before it, the  *)
(* `super' frame having been popped.                                       *)
C27_Outputs ==
    /\ Ran(ClassOrder) => output = <<"nil", "K", "nil", "K", "1", "L">>
    /\ Ran(ClassInBlock) => output = <<"K">>
    /\ Ran(BadSuperclass)
           => (/\ stderr = <<"RuntimeError: Superclass must be a class.">>
               /\ Len(classes) = 0)

(* The declaration of stmt continues in environment e with the superclass  *)
(* (0: none) known.                                                        *)
C27_Constructed(stmt, superclass, e) ==
    LET klass == Len(classes) + 1
        inner == IF superclass # 0 THEN Len(envs) + 1 ELSE e
    IN  /\ Len(classes') = klass
        /\ classes'[klass].name = stmt.name
        /\ classes'[klass].superclass = superclass
        /\ superclass # 0
               => (/\ envs'[inner].enclosing = e
                   /\ envs'[inner].values = MapSet(EmptyMap, "super", ClassV(superclass)))
        /\ IF stmt.staticMethods # <<>> /\ HasName(stmt.staticMethods, "init")
           THEN /\ Env_get(envs', e, stmt.name) = Ok(Nil)
                /\ environment' = inner
                /\ ctrl'.c = "invoke"
                /\ Env_get(envs', funs'[ctrl'.callee.n].closure, "this") = Ok(ClassV(klass))
                /\ funs'[ctrl'.callee.n].declaration
                       = funs'[MapGet(classes'[klass].staticMethods, "init")].declaration
                /\ kont'[Len(kont')].f = "classStmt"
           ELSE /\ Env_get(envs', e, stmt.name) = Ok(ClassV(klass))
                /\ environment' = e
                /\ ctrl' = Done

C27_Steps ==
    /\ (Executing("Class") /\ ctrl.s.superclass # None)
           => (/\ ctrl' = Eval(ctrl.s.superclass)
               /\ UNCHANGED <<environment, heap>>)
    /\ (Executing("Class") /\ ctrl.s.superclass = None)
           => C27_Constructed(ctrl.s, 0, environment)
    /\ (Returned("classSuperclass") /\ ctrl.v.t # "class")
           => (/\ ctrl' = Throw(RuntimeError("Superclass must be a class."))
               /\ UNCHANGED <<environment, heap>>)
    /\ (Returned("classSuperclass") /\ ctrl.v.t = "class")
           => C27_Constructed(Top.stmt, ctrl.v.n, environment)
    /\ Returned("classStmt")
           => LET before == IF Top.hasSuperclass THEN envs[environment].enclosing
                            ELSE environment
              IN  /\ Top.hasSuperclass => MapHas(envs[environment].values, "super")
                  /\ Env_get(envs, before, Top.stmt.name) = Ok(Nil)
                  /\ environment' = before
                  /\ Env_get(envs', before, Top.stmt.name) = Ok(ClassV(Top.klass))
                  /\ ctrl' = Done
                  /\ kont' = Pop

C27_ClassDeclaration == []C27_Outputs /\ [][C27_Steps]_vars

C27_Witness ==
    /\ Ran(ClassOrder)
    /\ output = <<"nil", "K", "nil", "K", "1", "L">>
    /\ environment = Globals
    /\ Env_get(envs, Globals, "K") = Ok(ClassV(2))

(* The number of endScope calls the visitor methods waiting in `work'      *)
(* still owe.                                                              *)
C28_Owed(item) ==
    IF item.t \in {"visitBlockStmt", "resolveFunction"} THEN 1
    ELSE IF item.t = "classEnd" THEN (IF item.stmt.superclass # None THEN 2 ELSE 1)
    ELSE 0

RECURSIVE C28_OwedFrom(_, _)
C28_OwedFrom(items, i) ==
    IF i > Len(items) THEN 0 ELSE C28_Owed(items[i]) + C28_OwedFrom(items, i + 1)

(* The end of the class whose member is at the head of `work'.             *)
C28_ClassEnd == CHOOSE j \in 1..Len(work) :
                    /\ work[j].t = "classEnd"
                    /\ \A h \in 1..(j - 1) : work[h].t # "classEnd"

(* The scope depth in the body of the member at the head of `work' is the  *)
(* depth of the place of the class declaration plus extra for a derived    *)
(* class and plus 2 for a base class.                                      *)
C28_MemberDepth(extra) ==
    (Resuming("method") \/ Resuming("getter"))
        => Len(resolver'.scopes)
               = C28_OwedFrom(work, C28_ClassEnd + 1)
                 + (IF work[C28_ClassEnd].stmt.superclass # None THEN extra ELSE 2)

C28_Balanced == pc = "resolving" => Len(resolver.scopes) = C28_OwedFrom(work, 1)

C28_Returned == pc = "resolving" /\ work = <<>>

(* C28 as worded: when Resolver.resolve returns from a statement list,     *)
(* with or without errors, the scope stack is empty, currentFunction,      *)
(* currentClass and currentLoop are NONE and currentSuperCall is false;    *)
(* the scope depth in a method body of a derived class is exactly two more *)
(* than in a method body of a base class declared at the same place.       *)
C28_InitialStateAndTwoDeeper ==
    /\ [](C28_Returned => resolver = NewResolver)
    /\ [][C28_MemberDepth(4)]_vars

(* C28, amended: when Resolver.resolve returns from a statement list, with *)
(* or without errors, every beginScope has been matched by an endScope     *)
(* (the scope stack is empty) and currentFunction, currentClass and        *)
(* currentLoop are NONE; currentSuperCall is false unless a super(...)     *)
(* call was resolved outside every function body, as in the program        *)
(* `super();'.  The scope depth in a method body of a derived class is     *)
(* exactly one more than in a method body of a base class declared at the  *)
(* same place: the scope that binds `super'.                               *)
C28_Final ==
    C28_Returned
        => (/\ [resolver EXCEPT !.currentSuperCall = FALSE] = NewResolver
            /\ resolver.currentSuperCall => Running = SuperTopLevel)

C28_ResolverBalanced ==
    /\ [](C28_Balanced /\ C28_Final)
    /\ [][C28_MemberDepth(3)]_vars

C28_Witness ==
    /\ ResolverDone(DepthInBlock)
    /\ resolver = NewResolver
    /\ stderr = <<>>
    /\ Len(locals) > 0

(* C29: every time Interpreter.interpret returns, whether all statements   *)
(* completed or a runtime error aborted them (in nested blocks, function   *)
(* calls, loops or a class declaration with a superclass), the current     *)
(* environment is the globals frame, so that definitions made by the next  *)
(* line of the prompt go into the globals and are found by global lookups. *)
C29_AtGlobals ==
    /\ pc \in {"idle", "resolving", "returned", "exited"} => environment = Globals
    /\ (pc = "running" /\ Top.f = "interpret" /\ ctrl.c \in {"done", "throw"})
           => environment = Globals
    /\ envs[Globals].enclosing = 0

C29_NextLine ==
    /\ (mode = "prompt" /\ pc = "idle"
        /\ history = <<Index(FaultNested), Index(DefineG), Index(PrintG)>>)
           => (/\ output = <<"7">>
               /\ stderr = <<"RuntimeError: Operands must be numbers.">>
               /\ Env_get(envs, Globals, "g") = Ok(Num(7)))
    /\ Ran(FaultNested) => stderr = <<"RuntimeError: Operands must be numbers.">>

C29_Defined ==
    (Executing("Var") /\ Top.f = "interpret" /\ ctrl.s.initializer = None)
        => MapHas(envs'[Globals].values, ctrl.s.name)

C29_InterpretReturnsAtGlobals == [](C29_AtGlobals /\ C29_NextLine) /\ [][C29_Defined]_vars

C29_Witness ==
    /\ mode = "prompt"
    /\ pc = "idle"
    /\ history = <<Index(FaultNested), Index(DefineG), Index(PrintG)>>
    /\ hadRuntimeError
    /\ output = <<"7">>
    /\ environment = Globals
    /\ Len(envs) > 4

(* C30: Interpreter.interpret executes the top-level statements strictly   *)
(* in source order and stops at the first one that raises a runtime        *)
(* error: no later top-level statement is executed, exactly one runtime    *)
(* error is reported for that interpret call, and the global definitions   *)
(* and field writes made before the error remain in effect.                *)
C30_Failure == ctrl.c = "throw" /\ ctrl.err.kind \in {"RuntimeError", "TypeError"}

(* Statements are taken in source order, and interpret returns after the   *)
(* last without a report.                                                  *)
C30_InOrder ==
    Completed("interpret")
        => IF Top.rest # <<>>
           THEN /\ ctrl' = Exec(Head(Top.rest))
                /\ kont' = <<[f |-> "interpret", rest |-> Tail(Top.rest)]>>
                /\ UNCHANGED <<pc, stderr, hadRuntimeError>>
           ELSE pc' = "returned" /\ UNCHANGED <<stderr, hadRuntimeError>>

(* An error raised while a statement is executed travels unchanged up to   *)
(* interpret.                                                              *)
C30_Raised ==
    (pc = "running" /\ C30_Failure /\ Top.f # "interpret") => ctrl' = ctrl

(* interpret reports the error once and returns; nothing else is executed  *)
(* and the heap is as the statements left it.                              *)
C30_Stops ==
    (pc = "running" /\ C30_Failure /\ Top.f = "interpret")
        => (/\ pc' = "returned"
            /\ Len(stderr') = Len(stderr) + 1
            /\ hadRuntimeError'
            /\ UNCHANGED <<output, environment, envs, funs, classes, insts>>)

(* Nothing but the catch clause of interpret reports while it runs.        *)
C30_Once ==
    (pc = "running" /\ stderr' # stderr) => (C30_Failure /\ Top.f = "interpret")

C30_StopsAtFirstError == [][C30_InOrder /\ C30_Raised /\ C30_Stops /\ C30_Once]_vars

=============================================================================
